---- MODULE Spec2Model ----
(***************************************************************************)
(* A model of the BiasFreeFootball ranking engine: the custom PageRank     *)
(* power iteration (src/src/pagerank.py), edge-weight computation          *)
(* (src/src/weights.py), graph construction and conference-strength        *)
(* injection (src/src/graph.py) and the hindsight (EM) pipeline with its   *)
(* bootstrap (src/src/retro_pipeline.py).                                  *)
(*                                                                         *)
(* Numbers are exact rationals <<num, den>> (den > 0, lowest terms).  The  *)
(* transcendental functions of the source (10**x, log2, exp, sqrt) are     *)
(* evaluated on a grid where they are not rational; each such operator     *)
(* says so where it is defined.                                            *)
(***************************************************************************)
EXTENDS Integers, Sequences, FiniteSets, TLC

VARIABLES pr, gb, inj, retro, boot, live, audit, store, sc, mf, wcalc, sched, qw

vars == <<pr, gb, inj, retro, boot, live, audit, store, sc, mf, wcalc, sched,
          qw>>

\* Python's None (a missing conference, an absent optional argument).
None == "None"

\* A component that is not running in the specification at hand.
Idle == [pc |-> "idle"]

-----------------------------------------------------------------------------
(* Exact rational arithmetic.                                              *)

Abs(x) == IF x < 0 THEN -x ELSE x

RECURSIVE GCD(_, _)
GCD(a, b) == IF b = 0 THEN a ELSE GCD(b, a % b)

\* n/d in lowest terms, d > 0.
Rat(n, d) ==
    LET g == GCD(Abs(n), d)
    IN  IF n = 0 THEN <<0, 1>> ELSE <<n \div g, d \div g>>

Zero == <<0, 1>>
One == <<1, 1>>
Half == <<1, 2>>

RAdd(a, b) ==
    LET g == GCD(a[2], b[2])
    IN  Rat(a[1] * (b[2] \div g) + b[1] * (a[2] \div g), (a[2] \div g) * b[2])

RNeg(a) == <<-a[1], a[2]>>

RSub(a, b) == RAdd(a, RNeg(b))

RMul(a, b) ==
    LET g1 == GCD(Abs(a[1]), b[2])
        g2 == GCD(Abs(b[1]), a[2])
    IN  IF a[1] = 0 \/ b[1] = 0 THEN Zero
        ELSE Rat((a[1] \div g1) * (b[1] \div g2), (a[2] \div g2) * (b[2] \div g1))

\* 1/a for a # 0.
RInv(a) == IF a[1] < 0 THEN <<-a[2], -a[1]>> ELSE <<a[2], a[1]>>

RDiv(a, b) == RMul(a, RInv(b))

RAbs(a) == <<Abs(a[1]), a[2]>>

RLt(a, b) == RSub(a, b)[1] < 0

RLe(a, b) == RSub(a, b)[1] <= 0

RMax(a, b) == IF RLt(a, b) THEN b ELSE a

RMin(a, b) == IF RLt(b, a) THEN b ELSE a

\* x < 1/inv for x >= 0, without forming x * inv.
BelowInv(x, inv) == x[1] <= (x[2] - 1) \div inv

\* The sum of f over the keys S.
RECURSIVE RSum(_, _)
RSum(f, S) ==
    IF S = {} THEN Zero
    ELSE LET k == CHOOSE k \in S : TRUE
         IN  RAdd(f[k], RSum(f, S \ {k}))

\* The largest value of f over the non-empty key set S.
RECURSIVE RMaxOver(_, _)
RMaxOver(f, S) ==
    LET k == CHOOSE k \in S : TRUE
    IN  IF S = {k} THEN f[k] ELSE RMax(f[k], RMaxOver(f, S \ {k}))

\* The empty dict.
EmptyMap == <<>>

-----------------------------------------------------------------------------
(* src/src/pagerank.py: PageRankCalculator.pagerank.                       *)
(* A graph is [nodes |-> set, weight |-> [edges -> rational]], the edges   *)
(* being ordered pairs <<source, target>> of nodes.                        *)

EmptyGraph == [nodes |-> {}, weight |-> EmptyMap]

out_edges(G, node) == {e \in DOMAIN G.weight : e[1] = node}

total_weight(G, node) == RSum(G.weight, out_edges(G, node))

\* A node whose column of M is the uniform one: no out-edge, or out-edges of
\* total weight 0.
DeadEndNoRedistribution(G, node, n) == Zero
DeadEndColumn(G, node, n) == <<1, n>>

\* M[target, node]: the share of node's mass that flows to target.
TransitionEntry(G, target, node) ==
    LET n == Cardinality(G.nodes)
        tw == total_weight(G, node)
    IN  IF out_edges(G, node) = {} \/ tw = Zero
        THEN DeadEndColumn(G, node, n)
        ELSE IF <<node, target>> \in DOMAIN G.weight
             THEN RDiv(G.weight[<<node, target>>], tw)
             ELSE Zero

TransitionMatrix(G) ==
    [target \in G.nodes |-> [node \in G.nodes |-> TransitionEntry(G, target, node)]]

\* dict.get(node, 1/n) for every node, divided by the total.
NormalizedVector(given, nodes) ==
    LET n == Cardinality(nodes)
        raw == [node \in nodes |->
                   IF node \in DOMAIN given THEN given[node] ELSE <<1, n>>]
        total == RSum(raw, nodes)
    IN  [node \in nodes |-> RDiv(raw[node], total)]

\* The total that NormalizedVector divides by is positive.
PositiveTotal(given, nodes) ==
    \/ given = EmptyMap
    \/ RLt(Zero, RSum([node \in nodes |->
                         IF node \in DOMAIN given THEN given[node]
                         ELSE <<1, Cardinality(nodes)>>], nodes))

UniformVector(nodes) == [node \in nodes |-> <<1, Cardinality(nodes)>>]

\* The start vector and the personalization vector: an empty or absent dict
\* is falsy and gives the uniform vector.
InitialVector(given, nodes) ==
    IF given = EmptyMap THEN UniformVector(nodes) ELSE NormalizedVector(given, nodes)

\* damping * M.dot(pr) + (1 - damping) * pers
PowerStep(M, v, pers, damping, nodes) ==
    [target \in nodes |->
        RAdd(RMul(damping,
                  RSum([node \in nodes |-> RMul(M[target][node], v[node])], nodes)),
             RMul(RSub(One, damping), pers[target]))]

\* np.abs(pr_new - pr).max()
MaxAbsDiff(a, b, nodes) ==
    RMaxOver([node \in nodes |-> RAbs(RSub(a[node], b[node]))], nodes)

\* The for loop with its break: `left` iterations remain.
RECURSIVE PowerIterate(_, _, _, _, _, _, _)
PowerIterate(M, v, pers, damping, tol_inv, left, nodes) ==
    IF left = 0 THEN v
    ELSE LET pr_new == PowerStep(M, v, pers, damping, nodes)
         IN  IF BelowInv(MaxAbsDiff(pr_new, v, nodes), tol_inv)
             THEN v
             ELSE PowerIterate(M, pr_new, pers, damping, tol_inv, left - 1, nodes)

\* The result on a graph with no nodes.
PagerankOfEmptyPlaceholder == [n \in {None} |-> Zero]
PagerankOfEmpty == EmptyMap

\* cfg is [damping, tol_inv, max_iterations]: tolerance = 1/tol_inv.
pagerank(G, personalization, initial_ratings, cfg) ==
    IF G.nodes = {} THEN PagerankOfEmpty
    ELSE PowerIterate(TransitionMatrix(G),
                      InitialVector(initial_ratings, G.nodes),
                      InitialVector(personalization, G.nodes),
                      cfg.damping, cfg.tol_inv, cfg.max_iterations, G.nodes)

\* The module-level pagerank(G, damping, tolerance, config) the pipelines
\* call: no personalization, no warm start.  max_iterations is bounded by
\* PipelineIterations and the tolerance is 1e-9.
PipelineIterations == 2
PipelineCfg ==
    [damping |-> <<17, 20>>, tol_inv |-> 1000000000,
     max_iterations |-> PipelineIterations]

pagerank_of(G) == pagerank(G, EmptyMap, EmptyMap, PipelineCfg)

-----------------------------------------------------------------------------
(* src/src/weights.py: WeightCalculator.  The configuration values are the *)
(* ones the repository's tests construct the components with.              *)

margin_cap == 5
shrinkage_k == 4
risk_B == 1
home_factor == <<11, 10>>
neutral_factor == One
road_factor == <<9, 10>>
win_prob_C == <<2, 5>>
surprise_gamma == <<3, 4>>
surprise_cap == <<3, 1>>
bowl_bump == <<11, 10>>

RECURSIVE Pow(_, _)
Pow(b, e) == IF e = 0 THEN 1 ELSE b * Pow(b, e - 1)

RECURSIVE RPow(_, _)
RPow(b, e) == IF e = 0 THEN One ELSE RMul(b, RPow(b, e - 1))

IMax(a, b) == IF a < b THEN b ELSE a
IMin(a, b) == IF a < b THEN a ELSE b

\* floor(x) of a rational.
RFloor(x) == x[1] \div x[2]

\* np.log2(k) for k in 2..32, in thousandths; exact at the powers of two.
Log2Milli ==
    <<0, 1000, 1585, 2000, 2322, 2585, 2807, 3000, 3170, 3322, 3459, 3585,
      3700, 3807, 3907, 4000, 4087, 4170, 4248, 4322, 4392, 4459, 4524, 4585,
      4644, 4700, 4755, 4807, 4858, 4907, 4954, 5000>>

\* log2(1 + min(max(margin, 1), 2**margin_cap - 1))
margin_factor(margin) ==
    LET effective_margin == IMin(IMax(margin, 1), Pow(2, margin_cap) - 1)
    IN  Rat(Log2Milli[1 + effective_margin], 1000)

\* {'home': .., 'neutral': .., 'road': ..}.get(venue, neutral_factor)
venue_factor(venue) ==
    CASE venue = "home" -> home_factor
      [] venue = "neutral" -> neutral_factor
      [] venue = "road" -> road_factor
      [] OTHER -> neutral_factor

\* np.exp(-0.05 * weeks_ago) for whole weeks 0..16, in thousandths.
ExpDecayMilli ==
    <<1000, 951, 905, 861, 819, 779, 741, 705, 670, 638, 607, 577, 549, 522,
      497, 472, 449>>

recency_factor(weeks_ago) == Rat(ExpDecayMilli[weeks_ago + 1], 1000)

\* games / (games + k)
shrinkage_weight(games_played) == Rat(games_played, games_played + shrinkage_k)

\* 1 / (1 + 10**(-(Ra - Rb) / C)).  The exponent is taken at the nearest
\* whole number in -3..3, where 10**x is rational.
win_probability(rating_a, rating_b) ==
    LET x == RDiv(RSub(rating_a, rating_b), win_prob_C)
        xq == IMax(-3, IMin(3, RFloor(RAdd(x, Half))))
    IN  IF xq >= 0 THEN Rat(Pow(10, xq), Pow(10, xq) + 1)
        ELSE Rat(1, 1 + Pow(10, -xq))

\* max(0.001, min(0.999, p))
ClampP(p) == RMax(<<1, 1000>>, RMin(<<999, 1000>>, p))

\* (credit, penalty) = base * (1 - p) / 0.5**B, base * (p / 0.5)**B
risk_multipliers(base_weight, p_expected) ==
    LET p == ClampP(p_expected)
    IN  [credit |-> RMul(base_weight, RDiv(RSub(One, p), RPow(Half, risk_B))),
         penalty |-> RMul(base_weight, RPow(RDiv(p, Half), risk_B))]

\* -np.log2(p) in thousandths at the values win_probability takes (clamped).
NegLog2Milli(p) ==
    CASE p = <<1, 1000>> -> 9966
      [] p = <<1, 101>> -> 6658
      [] p = <<1, 11>> -> 3459
      [] p = Half -> 1000
      [] p = <<10, 11>> -> 138
      [] p = <<100, 101>> -> 14
      [] p = <<999, 1000>> -> 1

\* min(1 + gamma * -log2(p), cap)
surprise_multiplier(p_expected) ==
    LET p == ClampP(p_expected)
        information_bits == Rat(NegLog2Milli(p), 1000)
    IN  RMin(RAdd(One, RMul(surprise_gamma, information_bits)), surprise_cap)

\* omega * rating + (1 - omega) * global_mean
blended_rating(team_rating, games_played) ==
    LET omega == shrinkage_weight(games_played)
    IN  RAdd(RMul(omega, team_rating), RMul(RSub(One, omega), Half))

\* WeightCalculator.calculate_edge_weights, which GraphBuilder calls: the
\* edge-weight bundle of one game (spec section 4.1).
calculate_edge_weights(game, rating_winner, rating_loser, current_week, games_winner, games_loser) ==
    LET weeks_ago == IMax(0, current_week - game.week)
        base == RMul(RMul(margin_factor(game.margin), venue_factor(game.venue)),
                     recency_factor(weeks_ago))
        p == win_probability(blended_rating(rating_winner, games_winner),
                             blended_rating(rating_loser, games_loser))
        risk == risk_multipliers(base, p)
        is_bowl == game.season_type = "postseason"
        is_cross == /\ game.winner_conference # None
                    /\ game.loser_conference # None
                    /\ game.winner_conference # game.loser_conference
    IN  [credit_weight |-> IF is_bowl THEN RMul(risk.credit, bowl_bump)
                           ELSE risk.credit,
         penalty_weight |-> risk.penalty,
         conf_weight |-> IF is_cross
                         THEN RMul(risk.credit, surprise_multiplier(p))
                         ELSE Zero,
         is_cross_conf |-> is_cross,
         is_bowl |-> is_bowl,
         is_intra_conf_bowl |-> is_bowl /\ ~is_cross,
         base_weight |-> base,
         p_expected |-> p]

-----------------------------------------------------------------------------
(* src/src/graph.py: GraphBuilder.                                         *)

\* dict.get(key, default)
Get(d, key, default) == IF key \in DOMAIN d THEN d[key] ELSE default

Range(s) == {s[i] : i \in DOMAIN s}

\* set(games_df['winner'].tolist() + games_df['loser'].tolist())
TeamsOf(games) == {g.winner : g \in Range(games)} \cup {g.loser : g \in Range(games)}

\* The conferences that are neither missing nor empty.
ConferencesOf(games) ==
    ({g.winner_conference : g \in Range(games)}
         \cup {g.loser_conference : g \in Range(games)}) \ {None, ""}

\* len(games_df[(winner == team) | (loser == team)])
GamesPlayed(games, team) ==
    Cardinality({i \in DOMAIN games : games[i].winner = team \/ games[i].loser = team})

\* G.add_nodes_from(nodes) on a fresh graph.
WithoutNodes(nodes) == EmptyGraph
WithNodes(nodes) == [nodes |-> nodes, weight |-> EmptyMap]

\* A replacing add_edge, where the source accumulates.
OverwriteEdge(G, u, v, w) ==
    [nodes |-> G.nodes \cup {u, v},
     weight |-> [e \in DOMAIN G.weight \cup {<<u, v>>} |->
                    IF e = <<u, v>> THEN w ELSE G.weight[e]]]

\* if G.has_edge(u, v): G[u][v]['weight'] += w  else: G.add_edge(u, v, weight=w)
AccumulateEdge(G, u, v, w) ==
    [nodes |-> G.nodes \cup {u, v},
     weight |-> [e \in DOMAIN G.weight \cup {<<u, v>>} |->
                    IF e = <<u, v>>
                    THEN (IF e \in DOMAIN G.weight THEN RAdd(G.weight[e], w) ELSE w)
                    ELSE G.weight[e]]]

\* The condition of the conference-graph edge, without and with the
\* cross-conference test.
ConfEdgeAnyKnown(weights, winner_conf, loser_conf) ==
    winner_conf \notin {None, ""} /\ loser_conf \notin {None, ""}
ConfEdgeQualifies(weights, winner_conf, loser_conf) ==
    /\ weights.is_cross_conf
    /\ winner_conf \notin {None, ""}
    /\ loser_conf \notin {None, ""}

\* The weights of a game when every game is measured from the last week of
\* the season instead of its own week.
GameWeightsSeasonEnd(mode, games, game, ratings, current_week) ==
    calculate_edge_weights(game, Get(ratings, game.winner, Half),
                           Get(ratings, game.loser, Half),
                           IF mode = "live" THEN current_week ELSE 15,
                           IF mode = "live" THEN GamesPlayed(games, game.winner) ELSE 999,
                           IF mode = "live" THEN GamesPlayed(games, game.loser) ELSE 999)

\* The weights of one game in build_graphs (shrinkage by games played) and
\* in rebuild_full_graph (the game's own week, 999 games played).
GameWeights(mode, games, game, ratings, current_week) ==
    IF mode = "live"
    THEN calculate_edge_weights(game, Get(ratings, game.winner, Half),
                                Get(ratings, game.loser, Half), current_week,
                                GamesPlayed(games, game.winner),
                                GamesPlayed(games, game.loser))
    ELSE calculate_edge_weights(game, Get(ratings, game.winner, Half),
                                Get(ratings, game.loser, Half), game.week, 999, 999)

\* The body of the loop over the games: the credit edge loser -> winner, the
\* penalty edge winner -> loser and the conference edge.
ProcessGame(graphs, weights, game) ==
    LET team1 == AccumulateEdge(graphs.G_team, game.loser, game.winner,
                                weights.credit_weight)
        team2 == AccumulateEdge(team1, game.winner, game.loser,
                                weights.penalty_weight)
    IN  [G_team |-> team2,
         G_conf |-> IF ConfEdgeQualifies(weights, game.winner_conference,
                                         game.loser_conference)
                    THEN AccumulateEdge(graphs.G_conf, game.loser_conference,
                                        game.winner_conference, weights.conf_weight)
                    ELSE graphs.G_conf]

\* The graphs before the loop: every observed team and conference is a node.
FreshGraphs(games) ==
    [G_team |-> WithNodes(TeamsOf(games)), G_conf |-> WithNodes(ConferencesOf(games))]

RECURSIVE ProcessGames(_, _, _, _, _, _)
ProcessGames(graphs, mode, games, ratings, current_week, i) ==
    IF i > Len(games) THEN graphs
    ELSE ProcessGames(ProcessGame(graphs,
                                  GameWeights(mode, games, games[i], ratings,
                                              current_week),
                                  games[i]),
                      mode, games, ratings, current_week, i + 1)

build_graphs(games, prev_ratings, current_week) ==
    ProcessGames(FreshGraphs(games), "live", games, prev_ratings, current_week, 1)

rebuild_full_graph(games, current_ratings) ==
    ProcessGames(FreshGraphs(games), "retro", games, current_ratings, 0, 1)

\* GraphBuilder._get_team_conference_mapping: the hard-coded lists.
sec_teams == {"Alabama", "Georgia", "Florida", "LSU", "Auburn", "Tennessee",
              "Kentucky", "South Carolina", "Mississippi State", "Ole Miss",
              "Arkansas", "Missouri", "Vanderbilt", "Texas A&M"}
big10_teams == {"Ohio State", "Michigan", "Penn State", "Wisconsin", "Iowa",
                "Minnesota", "Illinois", "Indiana", "Maryland", "Michigan State",
                "Nebraska", "Northwestern", "Purdue", "Rutgers"}
big12_teams == {"Oklahoma", "Texas", "Baylor", "Oklahoma State", "TCU",
                "Kansas State", "West Virginia", "Iowa State", "Kansas",
                "Texas Tech"}
pac12_teams == {"USC", "UCLA", "Oregon", "Washington", "Stanford", "Cal",
                "Arizona State", "Arizona", "Utah", "Colorado", "Oregon State",
                "Washington State"}
acc_teams == {"Clemson", "Florida State", "Miami", "Virginia Tech",
              "North Carolina", "Duke", "NC State", "Wake Forest", "Virginia",
              "Pittsburgh", "Syracuse", "Boston College", "Georgia Tech",
              "Louisville"}

get_team_conference_mapping(G_team) ==
    [team \in G_team.nodes |->
        CASE team \in sec_teams -> "SEC"
          [] team \in big10_teams -> "Big Ten"
          [] team \in big12_teams -> "Big 12"
          [] team \in pac12_teams -> "Pac-12"
          [] team \in acc_teams -> "ACC"
          [] OTHER -> "Other"]

\* np.sqrt(x) to two decimals (rounded down); exact where x is the square of
\* a multiple of 1/100.
Sqrt(x) ==
    LET hundredths == (x[1] * 100) \div x[2]
        rest == (x[1] * 100) % x[2]
        scaled == hundredths * 100 + (rest * 100) \div x[2]
        root == CHOOSE k \in 0..400 : k * k <= scaled /\ scaled < (k + 1) * (k + 1)
    IN  Rat(root, 100)

\* The factor applied to an intra-conference edge of conference conf.
InjectionMultiplier(conf_ratings, conf) == Sqrt(conf_ratings[conf])

\* Variants of the edge test: the tail's conference alone decides, and a
\* conference without a rating counts as 0.5.
inject_tail_strength(G_team, conf_ratings) ==
    LET team_to_conf == get_team_conference_mapping(G_team)
    IN  [nodes |-> G_team.nodes,
         weight |-> [e \in DOMAIN G_team.weight |->
                        IF team_to_conf[e[1]] \in DOMAIN conf_ratings
                        THEN RMul(G_team.weight[e],
                                  Sqrt(conf_ratings[team_to_conf[e[1]]]))
                        ELSE G_team.weight[e]]]

inject_default_strength(G_team, conf_ratings) ==
    LET team_to_conf == get_team_conference_mapping(G_team)
    IN  [nodes |-> G_team.nodes,
         weight |-> [e \in DOMAIN G_team.weight |->
                        IF team_to_conf[e[1]] = team_to_conf[e[2]]
                        THEN RMul(G_team.weight[e],
                                  Sqrt(IF team_to_conf[e[1]] \in DOMAIN conf_ratings
                                       THEN conf_ratings[team_to_conf[e[1]]]
                                       ELSE <<1, 2>>))
                        ELSE G_team.weight[e]]]

\* inject_conf_strength: every edge whose endpoints map to the same
\* conference, that conference being a key of conf_ratings, is multiplied.
inject_conf_strength(G_team, conf_ratings) ==
    LET team_to_conf == get_team_conference_mapping(G_team)
    IN  [nodes |-> G_team.nodes,
         weight |-> [e \in DOMAIN G_team.weight |->
                        IF /\ team_to_conf[e[1]] = team_to_conf[e[2]]
                           /\ team_to_conf[e[1]] \in DOMAIN conf_ratings
                        THEN RMul(G_team.weight[e],
                                  InjectionMultiplier(conf_ratings,
                                                      team_to_conf[e[1]]))
                        ELSE G_team.weight[e]]]

-----------------------------------------------------------------------------
(* One call of PageRankCalculator.pagerank, step by step.                  *)

\* Bounds of the PageRank specification.
MaxIterations == 2
PRNodes == {"a", "b", "c"}
PREdgePool == {<<"a", "b">>, <<"b", "a">>, <<"b", "c">>, <<"c", "a">>, <<"a", "a">>}
PRWeights == {Zero, One, <<2, 1>>}
\* (damping, 1/tolerance)
PRConfigs == {<<(<<17, 20>>), 1000>>, <<Half, 10>>}
\* Personalization / warm-start dicts; keys may be missing or foreign.
PRVectors ==
    { EmptyMap,
      [x \in {"a", "b"} |-> IF x = "a" THEN <<3, 1>> ELSE Zero],
      [x \in {"a", "c", "z"} |-> IF x = "c" THEN <<1, 4>> ELSE One] }

PRGraphs ==
    UNION { UNION { { [nodes |-> N, weight |-> w] : w \in [E -> PRWeights] }
                    : E \in SUBSET (PREdgePool \cap (N \X N)) }
            : N \in SUBSET PRNodes }

PRCall ==
    /\ pr.pc = "idle"
    /\ \E G \in PRGraphs, c \in PRConfigs,
          m \in 0..MaxIterations, pers \in PRVectors, init \in PRVectors :
          \* one of the two optional vectors is given at a time, or neither,
          \* and a given one has a positive total over the nodes of G
          /\ pers = EmptyMap \/ init = EmptyMap
          /\ G.nodes # {} => /\ PositiveTotal(pers, G.nodes)
                             /\ PositiveTotal(init, G.nodes)
          /\ pr' = IF G.nodes = {}
                   THEN [pc |-> "done", G |-> G, result |-> PagerankOfEmpty,
                         iteration |-> 0, max_iterations |-> m, converged |-> FALSE,
                         computed |-> 0]
                   ELSE [pc |-> "loop", G |-> G, damping |-> c[1], tol_inv |-> c[2],
                         max_iterations |-> m,
                         pers |-> InitialVector(pers, G.nodes),
                         v |-> InitialVector(init, G.nodes),
                         pr_new |-> InitialVector(init, G.nodes),
                         iteration |-> 0, computed |-> 0, converged |-> FALSE,
                         result |-> None]
    /\ UNCHANGED <<gb, inj, retro, boot, live, audit, store, sc, mf, wcalc, sched, qw>>

\* range(self.max_iterations) has another value.
LoopContinuesForever(iteration, max_iterations) == TRUE
LoopContinues(iteration, max_iterations) == iteration < max_iterations

\* One pass of the loop body: compute pr_new, break on convergence, else
\* pr = pr_new.
PRIterate ==
    /\ pr.pc = "loop"
    /\ LoopContinues(pr.iteration, pr.max_iterations)
    /\ LET pr_new == PowerStep(TransitionMatrix(pr.G), pr.v, pr.pers, pr.damping,
                               pr.G.nodes)
           diff == MaxAbsDiff(pr_new, pr.v, pr.G.nodes)
       IN  pr' = IF BelowInv(diff, pr.tol_inv)
                 THEN [pr EXCEPT !.pc = "exit", !.pr_new = pr_new,
                                 !.computed = @ + 1, !.converged = TRUE]
                 ELSE [pr EXCEPT !.v = pr_new, !.pr_new = pr_new,
                                 !.computed = @ + 1, !.iteration = @ + 1]
    /\ UNCHANGED <<gb, inj, retro, boot, live, audit, store, sc, mf, wcalc, sched, qw>>

\* The loop's else clause: the range is exhausted, a warning is logged.
PRExhausted ==
    /\ pr.pc = "loop"
    /\ ~LoopContinues(pr.iteration, pr.max_iterations)
    /\ pr' = [pr EXCEPT !.pc = "exit"]
    /\ UNCHANGED <<gb, inj, retro, boot, live, audit, store, sc, mf, wcalc, sched, qw>>

\* result = {nodes[i]: pr[i]}; return result
PRReturn ==
    /\ pr.pc = "exit"
    /\ pr' = [pr EXCEPT !.pc = "done", !.result = pr.v]
    /\ UNCHANGED <<gb, inj, retro, boot, live, audit, store, sc, mf, wcalc, sched, qw>>

PRInit ==
    /\ pr = Idle
    /\ gb = Idle
    /\ inj = Idle
    /\ retro = Idle
    /\ boot = Idle
    /\ live = Idle
    /\ audit = Idle
    /\ store = Idle
    /\ sc = Idle
    /\ mf = Idle
    /\ wcalc = Idle
    /\ sched = Idle
    /\ qw = Idle

PRNext == PRCall \/ PRIterate \/ PRExhausted \/ PRReturn

SpecPR == PRInit /\ [][PRNext]_vars

-----------------------------------------------------------------------------
(* One call of GraphBuilder.build_graphs or rebuild_full_graph, one game   *)
(* of the loop at a time.                                                  *)

\* Bounds of the graph specification.
MaxGames == 2

Game(w, l, wc, lc, m, v, wk, st) ==
    [winner |-> w, loser |-> l, winner_conference |-> wc, loser_conference |-> lc,
     margin |-> m, margin_is_number |-> TRUE, venue |-> v, week |-> wk,
     season_type |-> st]

\* The conference the data gives each team (Liberty: none).
GamePool ==
    { Game("Alabama", "Georgia", "SEC", "SEC", 7, "home", 1, "regular"),
      Game("Georgia", "Alabama", "SEC", "SEC", 3, "neutral", 15, "postseason"),
      Game("Alabama", "Michigan", "SEC", "Big Ten", 3, "neutral", 15, "postseason"),
      Game("Michigan", "Georgia", "Big Ten", "SEC", 1, "away", 2, "regular"),
      Game("Liberty", "Michigan", None, "Big Ten", 31, "home", 2, "regular"),
      Game("Michigan", "Liberty", "Big Ten", None, 0, "away", 3, "regular"),
      Game("Georgia", "Liberty", "SEC", None, 15, "neutral", 15, "postseason"),
      Game("Liberty", "UConn", None, None, 10, "home", 5, "regular") }

GameSeqs == UNION { [1..n -> GamePool] : n \in 0..MaxGames }

\* Prior ratings: none stored, or a stored map.
RatingMaps ==
    { EmptyMap,
      [t \in {"Alabama", "Georgia", "Michigan"} |->
          CASE t = "Alabama" -> <<19, 20>>
            [] t = "Georgia" -> Half
            [] t = "Michigan" -> <<1, 20>>] }

CurrentWeeks == {3, 15}

GBStart(mode, games, ratings, week) ==
    [pc |-> "loop", mode |-> mode, games |-> games, ratings |-> ratings,
     current_week |-> week, i |-> 1,
     G_team |-> FreshGraphs(games).G_team, G_conf |-> FreshGraphs(games).G_conf,
     before |-> FreshGraphs(games), weights |-> None]

GBBuild ==
    /\ gb.pc = "idle"
    /\ \E games \in GameSeqs, ratings \in RatingMaps, week \in CurrentWeeks :
          gb' = GBStart("live", games, ratings, week)
    /\ UNCHANGED <<pr, inj, retro, boot, live, audit, store, sc, mf, wcalc, sched, qw>>

GBRebuild ==
    /\ gb.pc = "idle"
    /\ \E games \in GameSeqs, ratings \in RatingMaps :
          gb' = GBStart("retro", games, ratings, 0)
    /\ UNCHANGED <<pr, inj, retro, boot, live, audit, store, sc, mf, wcalc, sched, qw>>

\* for idx, game in games_df.iterrows(): ...
GBProcess ==
    /\ gb.pc = "loop"
    /\ gb.i <= Len(gb.games)
    /\ LET game == gb.games[gb.i]
           weights == GameWeights(gb.mode, gb.games, game, gb.ratings,
                                  gb.current_week)
           after == ProcessGame([G_team |-> gb.G_team, G_conf |-> gb.G_conf],
                                weights, game)
       IN  gb' = [gb EXCEPT !.i = @ + 1, !.G_team = after.G_team,
                            !.G_conf = after.G_conf,
                            !.before = [G_team |-> gb.G_team, G_conf |-> gb.G_conf],
                            !.weights = weights]
    /\ UNCHANGED <<pr, inj, retro, boot, live, audit, store, sc, mf, wcalc, sched, qw>>

\* return G_conf, G_team
GBReturn ==
    /\ gb.pc = "loop"
    /\ gb.i > Len(gb.games)
    /\ gb' = [gb EXCEPT !.pc = "done"]
    /\ UNCHANGED <<pr, inj, retro, boot, live, audit, store, sc, mf, wcalc, sched, qw>>

GBNext == GBBuild \/ GBRebuild \/ GBProcess \/ GBReturn

SpecGraph == PRInit /\ [][GBNext]_vars

-----------------------------------------------------------------------------
(* One call of GraphBuilder.inject_conf_strength on a team graph.          *)

InjTeams ==
    {"Alabama", "Georgia", "Michigan", "Ohio State", "Toledo", "Team_A_SEC",
     "Team_B_SEC"}

InjEdgePool ==
    { <<"Alabama", "Georgia">>, <<"Georgia", "Alabama">>,
      <<"Michigan", "Ohio State">>, <<"Alabama", "Michigan">>,
      <<"Toledo", "Alabama">>, <<"Team_A_SEC", "Team_B_SEC">> }

InjWeights == {One, <<3, 2>>}

InjGraphs ==
    { [nodes |-> InjTeams, weight |-> w] :
        w \in UNION { [E -> InjWeights] : E \in SUBSET InjEdgePool } }

\* Conference ratings: none, one conference, a stage-1 result (sum 1), and
\* the ratings of tests/test_conf_injection.py.
InjRatings ==
    { EmptyMap,
      [c \in {"SEC"} |-> One],
      [c \in {"SEC", "Big Ten"} |-> IF c = "SEC" THEN <<1, 4>> ELSE <<3, 4>>],
      [c \in {"SEC", "MAC"} |-> IF c = "SEC" THEN <<2, 5>> ELSE <<7, 10>>] }

InjCall ==
    /\ inj.pc = "idle"
    /\ \E G \in InjGraphs, S \in InjRatings :
          inj' = [pc |-> "called", G |-> G, conf_ratings |-> S, result |-> None]
    /\ UNCHANGED <<pr, gb, retro, boot, live, audit, store, sc, mf, wcalc, sched, qw>>

\* The whole body: the mapping is computed and every edge is visited once.
InjApply ==
    /\ inj.pc = "called"
    /\ inj' = [inj EXCEPT !.pc = "done",
                          !.result = inject_conf_strength(inj.G, inj.conf_ratings)]
    /\ UNCHANGED <<pr, gb, retro, boot, live, audit, store, sc, mf, wcalc, sched, qw>>

InjNext == InjCall \/ InjApply

SpecInject == PRInit /\ [][InjNext]_vars

-----------------------------------------------------------------------------
(* C1: over a non-empty graph with non-negative weights the PageRank       *)
(* iterate sums to 1 after every power-iteration step, and so does the     *)
(* returned map, for either damping, with a uniform or a given             *)
(* personalization / warm-start vector, with or without dangling nodes.    *)
C1_PageRankSumsToOne ==
    (pr.pc \in {"loop", "exit", "done"} /\ pr.G.nodes # {}) =>
        /\ RSum(pr.v, pr.G.nodes) = One
        /\ RSum(pr.pr_new, pr.G.nodes) = One
        /\ pr.pc = "done" => RSum(pr.result, pr.G.nodes) = One

\* A finished run of two steps on a three-node graph with a dangling node
\* and a non-uniform result.
C1_Witness ==
    /\ pr.pc = "done"
    /\ Cardinality(pr.G.nodes) = 3
    /\ \E n \in pr.G.nodes : out_edges(pr.G, n) = {}
    /\ \E n \in pr.G.nodes : out_edges(pr.G, n) # {}
    /\ pr.computed = 2
    /\ \E n \in pr.G.nodes : pr.result[n] # <<1, 3>>

(* C8: pagerank performs at most max_iterations power-iteration steps and  *)
(* returns: every step of a started call lowers a non-negative rank, so    *)
(* the call ends.  When the change never fell below the tolerance the      *)
(* result is the last computed iterate, a score for every node; the call   *)
(* has no raising step.                                                    *)
PRRank ==
    CASE pr.pc = "loop" -> 2 + pr.max_iterations - pr.iteration
      [] pr.pc = "exit" -> 1
      [] OTHER -> 0

C8_Safety ==
    /\ pr.pc \in {"idle", "loop", "exit", "done"}
    /\ PRRank >= 0
    /\ pr.pc \in {"loop", "exit", "done"} => pr.computed <= pr.max_iterations
    /\ (pr.pc = "done" /\ pr.G.nodes # {} /\ ~pr.converged) =>
           /\ pr.computed = pr.max_iterations
           /\ pr.result = pr.pr_new
           /\ DOMAIN pr.result = pr.G.nodes

C8_PageRankTerminates ==
    []C8_Safety /\ [][pr.pc \in {"loop", "exit"} => PRRank' < PRRank]_vars

\* A run that used up its two iterations without converging.
C8_Witness ==
    /\ pr.pc = "done"
    /\ pr.G.nodes # {}
    /\ ~pr.converged
    /\ pr.max_iterations = 2
    /\ pr.computed = 2
    /\ pr.result # UniformVector(pr.G.nodes)

-----------------------------------------------------------------------------
(* Claims about graph construction, on the game processed last.            *)

EdgeWeight(G, u, v) == Get(G.weight, <<u, v>>, Zero)

GBProcessed == gb.pc \in {"loop", "done"} /\ gb.i > 1

LastGame == gb.games[gb.i - 1]

\* What the last game added to the team edge loser -> winner and to the
\* conference edge loser conference -> winner conference.
CreditAdded ==
    RSub(EdgeWeight(gb.G_team, LastGame.loser, LastGame.winner),
         EdgeWeight(gb.before.G_team, LastGame.loser, LastGame.winner))

ConfAdded ==
    RSub(EdgeWeight(gb.G_conf, LastGame.loser_conference, LastGame.winner_conference),
         EdgeWeight(gb.before.G_conf, LastGame.loser_conference,
                    LastGame.winner_conference))

\* The credit weight the same game gets as a regular-season game.
RegularCredit ==
    GameWeights(gb.mode, gb.games, [LastGame EXCEPT !.season_type = "regular"],
                gb.ratings, gb.current_week).credit_weight

IsIntraBowl(g) ==
    /\ g.season_type = "postseason"
    /\ g.winner_conference # None
    /\ g.winner_conference = g.loser_conference

IsCrossBowl(g) ==
    /\ g.season_type = "postseason"
    /\ g.winner_conference # None
    /\ g.loser_conference # None
    /\ g.winner_conference # g.loser_conference

(* C5: a postseason game within one conference leaves the conference graph *)
(* as it was (conference weight 0) and adds a positive credit weight,      *)
(* bowl_bump times the regular-season credit, to the team edge             *)
(* loser -> winner; a postseason game between two different known          *)
(* conferences adds positive weight to the team edge and to the conference *)
(* edge.                                                                   *)
C5_BowlHandling ==
    GBProcessed =>
        /\ IsIntraBowl(LastGame) =>
              /\ gb.G_conf = gb.before.G_conf
              /\ gb.weights.conf_weight = Zero
              /\ RLt(Zero, CreditAdded)
              /\ CreditAdded = RMul(bowl_bump, RegularCredit)
        /\ IsCrossBowl(LastGame) =>
              /\ RLt(Zero, CreditAdded)
              /\ RLt(Zero, ConfAdded)

\* An intra-conference bowl and then a cross-conference bowl were processed.
C5_Witness ==
    /\ gb.pc = "done"
    /\ Len(gb.games) = 2
    /\ IsIntraBowl(gb.games[1])
    /\ IsCrossBowl(gb.games[2])
    /\ DOMAIN gb.G_conf.weight = {<<"Big Ten", "SEC">>}

\* The games that contribute to the team edge u -> v: those u lost to v
\* (credit) and those u won against v (penalty).
CreditIdx(u, v) == {i \in DOMAIN gb.games : gb.games[i].loser = u /\ gb.games[i].winner = v}

PenaltyIdx(u, v) == {i \in DOMAIN gb.games : gb.games[i].winner = u /\ gb.games[i].loser = v}

\* The games that contribute to the conference edge a -> b.
ConfIdx(a, b) ==
    {i \in DOMAIN gb.games : /\ gb.games[i].loser_conference = a
                             /\ gb.games[i].winner_conference = b
                             /\ a # b}

WeightsOfGame(i) ==
    GameWeights(gb.mode, gb.games, gb.games[i], gb.ratings, gb.current_week)

PairTotal(u, v) ==
    RAdd(RSum([i \in DOMAIN gb.games |-> WeightsOfGame(i).credit_weight],
              CreditIdx(u, v)),
         RSum([i \in DOMAIN gb.games |-> WeightsOfGame(i).penalty_weight],
              PenaltyIdx(u, v)))

ConfTotal(a, b) ==
    RSum([i \in DOMAIN gb.games |-> WeightsOfGame(i).conf_weight], ConfIdx(a, b))

(* C6: in the returned team graph an ordered pair of teams has an edge     *)
(* exactly when some game contributes to it, its weight is the sum of the  *)
(* credit weights of the games the source lost to the target and the       *)
(* penalty weights of the games it won against the target, no edge is a    *)
(* self-loop and every weight is positive; the conference graph has one    *)
(* accumulated loser-conference -> winner-conference edge per ordered pair *)
(* of distinct conferences with a cross-conference game, and no self-loop. *)
C6_EdgeAccumulation ==
    gb.pc = "done" =>
        /\ DOMAIN gb.G_team.weight \subseteq gb.G_team.nodes \X gb.G_team.nodes
        /\ \A u, v \in gb.G_team.nodes :
              /\ <<u, v>> \in DOMAIN gb.G_team.weight
                    <=> CreditIdx(u, v) \cup PenaltyIdx(u, v) # {}
              /\ <<u, v>> \in DOMAIN gb.G_team.weight =>
                    /\ u # v
                    /\ gb.G_team.weight[<<u, v>>] = PairTotal(u, v)
                    /\ RLt(Zero, gb.G_team.weight[<<u, v>>])
        /\ DOMAIN gb.G_conf.weight \subseteq gb.G_conf.nodes \X gb.G_conf.nodes
        /\ \A a, b \in gb.G_conf.nodes :
              /\ <<a, b>> \in DOMAIN gb.G_conf.weight <=> ConfIdx(a, b) # {}
              /\ <<a, b>> \in DOMAIN gb.G_conf.weight =>
                    /\ a # b
                    /\ gb.G_conf.weight[<<a, b>>] = ConfTotal(a, b)

\* A pair of teams that met twice with one win each, and a conference edge
\* fed by two games.
C6_Witness ==
    /\ gb.pc = "done"
    /\ \E u, v \in gb.G_team.nodes : CreditIdx(u, v) # {} /\ PenaltyIdx(u, v) # {}

-----------------------------------------------------------------------------
(* Claims about conference-strength injection.                             *)

\* mean of all values of S
MeanOf(S) == RDiv(RSum(S, DOMAIN S), <<Cardinality(DOMAIN S), 1>>)

\* An edge inside conference c, c rated.
IntraRated(G, S, e) ==
    LET team_to_conf == get_team_conference_mapping(G)
    IN  /\ team_to_conf[e[1]] = team_to_conf[e[2]]
        /\ team_to_conf[e[1]] \in DOMAIN S

(* C4: after injection every edge inside a rated conference c has weight   *)
(* original weight x sqrt(S[c] / mean of the values of S).                 *)
C4_RelativeScaling ==
    inj.pc = "done" =>
        \A e \in DOMAIN inj.G.weight :
            IntraRated(inj.G, inj.conf_ratings, e) =>
                inj.result.weight[e] =
                    RMul(inj.G.weight[e],
                         Sqrt(RDiv(inj.conf_ratings[
                                       get_team_conference_mapping(inj.G)[e[1]]],
                                   MeanOf(inj.conf_ratings))))

-----------------------------------------------------------------------------
(* src/src/retro_pipeline.py: RetroPipeline.run_retro, and                 *)
(* src/src/live_pipeline.py: LivePipeline.run_live.                        *)

\* Bound of the outer (EM) loop.
MaxOuter == 3

\* convergence_threshold is 1e-6.
ThresholdInv == 1000000

\* A row whose margin is not a number: max(margin, 1) raises.
BadGame ==
    [Game("Georgia", "Alabama", "SEC", "SEC", 0, "home", 4, "regular")
        EXCEPT !.margin_is_number = FALSE]

GameRaises(game) == ~game.margin_is_number

\* The seasons the pipelines are run on: an intra-conference pair, a
\* cross-conference pair, a team with two opponents (no conferences), a
\* pair with one conference, and the malformed row.
PipelineGamePool ==
    { Game("Alabama", "Georgia", "SEC", "SEC", 7, "home", 1, "regular"),
      Game("Georgia", "Alabama", "SEC", "SEC", 3, "neutral", 15, "postseason"),
      Game("Michigan", "Clemson", "Big Ten", "ACC", 3, "away", 2, "regular"),
      Game("Clemson", "Michigan", "ACC", "Big Ten", 10, "neutral", 15, "postseason"),
      Game("Liberty", "UConn", None, None, 3, "neutral", 5, "regular"),
      Game("Liberty", "Army", None, None, 1, "neutral", 5, "regular"),
      Game("Toledo", "Navy", "MAC", None, 1, "home", 3, "regular"),
      BadGame }

\* Stored ratings the pipelines start from: those of RatingMaps, and a
\* map that rates Army well below its two rivals.
PipelineRatingMaps ==
    RatingMaps \cup
        { [t \in {"Liberty", "UConn", "Army"} |->
              IF t = "Army" THEN <<1, 10>> ELSE <<9, 20>>] }

PipelineGameSeqs == UNION { [1..n -> PipelineGamePool] : n \in 0..MaxGames }

\* {conf: 0.5 for conf in conferences}
UniformConferences(conferences) == [conf \in conferences |-> Half]

\* if max_diff < convergence_threshold
NeverConverged(max_diff) == FALSE
AlwaysConverged(max_diff) == TRUE
ConvergedTest(max_diff) == BelowInv(max_diff, ThresholdInv)

\* R, S = R_new, S_new
KeepRatings(R_new, S_new, R, S) == [R |-> R, S |-> S]
AdoptRatings(R_new, S_new, R, S) == [R |-> R_new, S |-> S_new]

\* max over the teams of R_new of |R_new[team] - R.get(team, 0.5)|
MaxDiff(R_new, R) ==
    RMaxOver([team \in DOMAIN R_new |-> RAbs(RSub(R_new[team], Get(R, team, Half)))],
             DOMAIN R_new)

ExceptionResult == [success |-> FALSE, error |-> "exception"]

NoGameData == [success |-> FALSE, error |-> "No game data"]

RetroStart(games, R_init, max_outer) ==
    [pc |-> "loop", games |-> games, max_outer |-> max_outer, R_init |-> R_init,
     R |-> R_init, S |-> EmptyMap, outer_iter |-> 0, converged |-> FALSE,
     final_diff |-> None, iteration_history |-> <<>>, G_conf |-> EmptyGraph,
     G_team |-> EmptyGraph, S_raw |-> EmptyMap, S_new |-> EmptyMap, saved |-> None,
     result |-> None]

\* Steps 1-2: ingest, the empty-data return, R_init from the stored week-15
\* ratings (an empty map when none are stored).
RetroCall ==
    /\ retro.pc = "idle"
    /\ live.pc = "idle"
    /\ \E games \in PipelineGameSeqs, R_init \in PipelineRatingMaps,
          max_outer \in 0..MaxOuter :
          retro' = IF games = <<>>
                   THEN [RetroStart(games, R_init, max_outer) EXCEPT
                            !.pc = "done", !.result = NoGameData]
                   ELSE RetroStart(games, R_init, max_outer)
    /\ UNCHANGED <<pr, gb, inj, boot, live, audit, store, sc, mf, wcalc, sched, qw>>

\* The first half of the loop body: rebuild both graphs from R, stage-1
\* PageRank, the uniform conference ratings when it is empty.
RetroStage1 ==
    /\ retro.pc = "loop"
    /\ retro.outer_iter < retro.max_outer
    /\ retro' =
          IF \E i \in DOMAIN retro.games : GameRaises(retro.games[i])
          THEN [retro EXCEPT !.pc = "done", !.result = ExceptionResult]
          ELSE LET graphs == rebuild_full_graph(retro.games, retro.R)
                   S_raw == pagerank_of(graphs.G_conf)
               IN  [retro EXCEPT
                      !.pc = "stage2",
                      !.G_conf = graphs.G_conf,
                      !.G_team = graphs.G_team,
                      !.S_raw = S_raw,
                      !.S_new = IF S_raw = EmptyMap
                                THEN UniformConferences(ConferencesOf(retro.games))
                                ELSE S_raw]
    /\ UNCHANGED <<pr, gb, inj, boot, live, audit, store, sc, mf, wcalc, sched, qw>>

\* The second half: injection, stage-2 PageRank, the convergence check.
RetroStage2 ==
    /\ retro.pc = "stage2"
    /\ LET R_new == pagerank_of(inject_conf_strength(retro.G_team, retro.S_new))
           max_diff == MaxDiff(R_new, retro.R)
           adopted == AdoptRatings(R_new, retro.S_new, retro.R, retro.S)
       IN  retro' =
             IF R_new = EmptyMap
             THEN [retro EXCEPT !.pc = "after_loop"]
             ELSE IF ConvergedTest(max_diff)
             THEN [retro EXCEPT !.pc = "after_loop",
                                !.iteration_history = Append(@, max_diff),
                                !.converged = TRUE,
                                !.final_diff = max_diff,
                                !.R = adopted.R, !.S = adopted.S]
             ELSE [retro EXCEPT !.pc = "loop",
                                !.iteration_history = Append(@, max_diff),
                                !.final_diff = max_diff,
                                !.R = adopted.R, !.S = adopted.S,
                                !.outer_iter = @ + 1]
    /\ UNCHANGED <<pr, gb, inj, boot, live, audit, store, sc, mf, wcalc, sched, qw>>

\* range(max_outer) is exhausted.
RetroLoopEnd ==
    /\ retro.pc = "loop"
    /\ retro.outer_iter >= retro.max_outer
    /\ retro' = [retro EXCEPT !.pc = "after_loop"]
    /\ UNCHANGED <<pr, gb, inj, boot, live, audit, store, sc, mf, wcalc, sched, qw>>

\* Steps 4-7 and the result: the warning when not converged, the ratings
\* saved and published, the summary.  (The bootstrap report is the subject
\* of SpecBoot.)
RetroFinish ==
    /\ retro.pc = "after_loop"
    /\ retro' = [retro EXCEPT
                   !.pc = "done",
                   !.saved = [S |-> retro.S, R |-> retro.R],
                   !.result = [success |-> TRUE,
                               iterations |-> Len(retro.iteration_history),
                               converged |-> retro.converged,
                               final_difference |-> retro.final_diff,
                               final_rankings |-> retro.R,
                               conference_rankings |-> retro.S]]
    /\ UNCHANGED <<pr, gb, inj, boot, live, audit, store, sc, mf, wcalc, sched, qw>>

RetroNext == RetroCall \/ RetroStage1 \/ RetroStage2 \/ RetroLoopEnd \/ RetroFinish

\* run_live steps 1-2: ingest, the empty-data return, the previous ratings
\* (an empty map for week 1 or when none are stored).
LiveCall ==
    /\ live.pc = "idle"
    /\ retro.pc = "idle"
    /\ \E games \in PipelineGameSeqs, R_prev \in PipelineRatingMaps,
          week \in CurrentWeeks :
          live' = [pc |-> IF games = <<>> THEN "done" ELSE "stage1",
                   games |-> games, R_prev |-> R_prev, week |-> week,
                   G_conf |-> EmptyGraph, G_team |-> EmptyGraph,
                   S_raw |-> EmptyMap, S |-> EmptyMap,
                   saved |-> None,
                   result |-> IF games = <<>> THEN NoGameData ELSE None]
    /\ UNCHANGED <<pr, gb, inj, retro, boot, audit, store, sc, mf, wcalc, sched, qw>>

\* Steps 3-4: build_graphs, stage-1 PageRank, 0.5 for every node of the
\* conference graph when it is empty.
LiveStage1 ==
    /\ live.pc = "stage1"
    /\ live' =
          IF \E i \in DOMAIN live.games : GameRaises(live.games[i])
          THEN [live EXCEPT !.pc = "done", !.result = ExceptionResult]
          ELSE LET graphs == build_graphs(live.games, live.R_prev, live.week)
                   S_raw == pagerank_of(graphs.G_conf)
               IN  [live EXCEPT
                      !.pc = "stage2",
                      !.G_conf = graphs.G_conf,
                      !.G_team = graphs.G_team,
                      !.S_raw = S_raw,
                      !.S = IF S_raw = EmptyMap
                            THEN UniformConferences(graphs.G_conf.nodes)
                            ELSE S_raw]
    /\ UNCHANGED <<pr, gb, inj, retro, boot, audit, store, sc, mf, wcalc, sched, qw>>

\* Steps 5-8: injection, stage-2 PageRank, the failure return when it is
\* empty, the ratings saved and published, the summary.
LiveStage2 ==
    /\ live.pc = "stage2"
    /\ LET R == pagerank_of(inject_conf_strength(live.G_team, live.S))
       IN  live' =
             IF R = EmptyMap
             THEN [live EXCEPT !.pc = "done",
                     !.result = [success |-> FALSE,
                                 error |-> "PageRank computation failed"]]
             ELSE [live EXCEPT !.pc = "done",
                     !.saved = [S |-> live.S, R |-> R],
                     !.result = [success |-> TRUE, top_teams |-> R,
                                 conferences_ranked |-> Cardinality(DOMAIN live.S)]]
    /\ UNCHANGED <<pr, gb, inj, retro, boot, audit, store, sc, mf, wcalc, sched, qw>>

LiveNext == LiveCall \/ LiveStage1 \/ LiveStage2

PipelineNext == RetroNext \/ LiveNext

SpecPipeline == PRInit /\ [][PipelineNext]_vars

-----------------------------------------------------------------------------
(* Claims about the hindsight (EM) loop of run_retro.                      *)

RetroRan == retro.pc \in {"loop", "stage2", "after_loop", "done"}

\* The loop is over: by the break or because range(max_outer) is exhausted.
RetroLoopOver ==
    \/ retro.pc = "after_loop"
    \/ retro.pc = "done" /\ retro.result.success

BelowThreshold(max_diff) == BelowInv(max_diff, ThresholdInv)

(* C2: the outer loop runs at most max_outer iterations; no iteration      *)
(* before the last has a maximum rating change strictly below the          *)
(* convergence threshold; once the loop is over, converged is true exactly *)
(* when the last iteration's change is below the threshold, and false      *)
(* only when max_outer iterations were run; the result reports that flag.  *)
C2_EMLoopStops ==
    RetroRan =>
        LET h == retro.iteration_history
        IN  /\ Len(h) <= retro.max_outer
            /\ \A i \in 1..(Len(h) - 1) : ~BelowThreshold(h[i])
            /\ retro.pc \in {"loop", "stage2"} =>
                  /\ ~retro.converged
                  /\ \A i \in 1..Len(h) : ~BelowThreshold(h[i])
            /\ RetroLoopOver =>
                  /\ retro.converged <=> (Len(h) > 0 /\ BelowThreshold(h[Len(h)]))
                  /\ ~retro.converged => Len(h) = retro.max_outer
            /\ (retro.pc = "done" /\ retro.result.success) =>
                  /\ retro.result.converged = retro.converged
                  /\ retro.result.iterations = Len(h)

\* A run that stopped on the threshold at its second iteration, one short
\* of the cap.
C2_Witness ==
    /\ retro.pc = "done"
    /\ retro.result.success
    /\ retro.result.converged
    /\ retro.result.iterations = 2
    /\ retro.max_outer = 3
    /\ ~BelowThreshold(retro.iteration_history[1])

\* The ratings after k iterations of the loop body, from R.
RECURSIVE EMRatings(_, _, _, _)
EMRatings(games, R, S, k) ==
    IF k = 0 THEN [R |-> R, S |-> S]
    ELSE LET graphs == rebuild_full_graph(games, R)
             S_raw == pagerank_of(graphs.G_conf)
             S_new == IF S_raw = EmptyMap
                      THEN [c \in ConferencesOf(games) |-> Half]
                      ELSE S_raw
             R_new == pagerank_of(inject_conf_strength(graphs.G_team, S_new))
         IN  EMRatings(games, R_new, S_new, k - 1)

\* range(max_outer) was exhausted without the threshold being met.
CapReached ==
    /\ retro.pc = "done"
    /\ retro.games # <<>>
    /\ retro.max_outer >= 1
    /\ Len(retro.iteration_history) = retro.max_outer
    /\ ~retro.converged

(* C3: a run whose loop reaches max_outer iterations without converging    *)
(* returns success with converged = false and with the ratings R and S of  *)
(* its last iteration, which are also the ratings it saves.                *)
C3_NonConvergenceIsSoft ==
    CapReached =>
        LET last == EMRatings(retro.games, retro.R_init, EmptyMap, retro.max_outer)
        IN  /\ retro.result.success
            /\ retro.result.converged = FALSE
            /\ retro.result.iterations = retro.max_outer
            /\ retro.result.final_rankings = last.R
            /\ retro.result.conference_rankings = last.S
            /\ retro.saved = [S |-> last.S, R |-> last.R]

\* The cap of two iterations was reached from stored ratings, the second
\* iteration still moving the ratings by more than the threshold.
C3_Witness ==
    /\ CapReached
    /\ retro.max_outer = 2
    /\ retro.R_init # EmptyMap
    /\ retro.result.final_rankings # retro.R_init
    /\ retro.saved.R = retro.result.final_rankings

\* Stage 1 of the run has been computed.
RetroStage1Ran ==
    \/ retro.pc = "stage2"
    \/ retro.pc \in {"after_loop", "done"} /\ Len(retro.iteration_history) >= 1

LiveStage1Ran ==
    \/ live.pc = "stage2"
    \/ live.pc = "done" /\ live.result \notin {NoGameData, ExceptionResult}

(* C9: PageRank of a graph without nodes is the empty map and PageRank of  *)
(* a graph with the single node n is {n: 1}; when the conference PageRank  *)
(* is empty both pipelines go on with 0.5 for every observed conference    *)
(* and finish with a success result.                                       *)
C9_EmptyAndSingleton ==
    /\ RetroStage1Ran =>
          /\ retro.G_conf.nodes = {} => retro.S_raw = EmptyMap
          /\ \A n \in retro.G_conf.nodes :
                retro.G_conf.nodes = {n} => retro.S_raw = [m \in {n} |-> One]
          /\ retro.S_raw = EmptyMap =>
                /\ retro.S_new = [c \in ConferencesOf(retro.games) |-> Half]
                /\ retro.pc = "done" => retro.result.success
    /\ LiveStage1Ran =>
          /\ live.G_conf.nodes = {} => live.S_raw = EmptyMap
          /\ \A n \in live.G_conf.nodes :
                live.G_conf.nodes = {n} => live.S_raw = [m \in {n} |-> One]
          /\ live.S_raw = EmptyMap =>
                /\ live.S = [c \in ConferencesOf(live.games) |-> Half]
                /\ live.pc = "done" => live.result.success

\* A live run over games without conferences that finished with ratings
\* for both teams.
C9_Witness ==
    /\ live.pc = "done"
    /\ LiveStage1Ran
    /\ live.S_raw = EmptyMap
    /\ live.result.success
    /\ DOMAIN live.saved.R = {"Liberty", "UConn"}

-----------------------------------------------------------------------------
(* src/src/retro_pipeline.py: RetroPipeline._bootstrap_uncertainty.        *)

\* Bound of bootstrap_samples (25 in run_retro, 100 by default).
MaxSamples == 2

BootGamePool ==
    { Game("Alabama", "Georgia", "SEC", "SEC", 7, "home", 1, "regular"),
      Game("Liberty", "UConn", None, None, 3, "neutral", 5, "regular"),
      Game("Liberty", "Army", None, None, 1, "neutral", 5, "regular"),
      BadGame }

BootGameSeqs == UNION { [1..n -> BootGamePool] : n \in 0..MaxGames }

\* _get_rankings_from_ratings: 1 = best, by rating descending; teams with
\* equal ratings keep the order of the dict, which the graph's node set
\* decides, so any order of them can come out.
Rankings(ratings) ==
    { r \in [DOMAIN ratings -> 1..Cardinality(DOMAIN ratings)] :
        /\ \A t, u \in DOMAIN ratings : t # u => r[t] # r[u]
        /\ \A t, u \in DOMAIN ratings : RLt(ratings[u], ratings[t]) => r[t] < r[u] }

\* games_df.sample(n=len(games_df), replace=True, random_state=sample_idx)
Samples(games) == [1..Len(games) -> 1..Len(games)]

Sampled(games, sample) == [i \in 1..Len(games) |-> games[sample[i]]]

\* The body of the try block up to R_boot.
RoundRatings(sampled_games, final_ratings) ==
    LET graphs == rebuild_full_graph(sampled_games, final_ratings)
        S_raw == pagerank_of(graphs.G_conf)
        S_boot == IF S_raw = EmptyMap
                  THEN UniformConferences(ConferencesOf(sampled_games))
                  ELSE S_raw
    IN  pagerank_of(inject_conf_strength(graphs.G_team, S_boot))

\* if R_boot and len(R_boot) > 0
RoundAlwaysCounts(R_boot) == TRUE
RoundCounts(R_boot) == R_boot # EmptyMap

IntMax(S) == CHOOSE x \in S : \A y \in S : y <= x

IntMin(S) == CHOOSE x \in S : \A y \in S : x <= y

\* _calculate_uncertainty_metrics: per team, the number of rank maps that
\* hold it and the spread of its ranks (a missing team ranks last + 1).
TeamUncertainty(bootstrap_rankings, baseline_ranking) ==
    LET all_teams == UNION {DOMAIN bootstrap_rankings[i] : i \in DOMAIN bootstrap_rankings}
        worst == Cardinality(all_teams) + 1
        team_ranks(team) ==
            {Get(bootstrap_rankings[i], team, worst) : i \in DOMAIN bootstrap_rankings}
    IN  [team \in all_teams |->
            [baseline_rank |-> Get(baseline_ranking, team, worst),
             rank_volatility |-> IntMax(team_ranks(team)) - IntMin(team_ranks(team)),
             samples_present |->
                 Cardinality({i \in DOMAIN bootstrap_rankings :
                                 team \in DOMAIN bootstrap_rankings[i]})]]

BootCall ==
    /\ boot.pc = "idle"
    /\ \E games \in BootGameSeqs, final_ratings \in PipelineRatingMaps,
          bootstrap_samples \in 0..MaxSamples :
        \E baseline_ranking \in Rankings(final_ratings) :
          boot' = [pc |-> "loop", games |-> games, final_ratings |-> final_ratings,
                   bootstrap_samples |-> bootstrap_samples,
                   baseline_ranking |-> baseline_ranking, sample_idx |-> 0,
                   samples |-> <<>>, bootstrap_rankings |-> <<>>, result |-> None]
    /\ UNCHANGED <<pr, gb, inj, retro, live, audit, store, sc, mf, wcalc, sched, qw>>

\* One round: the try block, and except: continue when a row raises.
BootRound ==
    /\ boot.pc = "loop"
    /\ boot.sample_idx < boot.bootstrap_samples
    /\ \E sample \in Samples(boot.games) :
          LET sampled_games == Sampled(boot.games, sample)
              raised == \E i \in DOMAIN sampled_games : GameRaises(sampled_games[i])
              R_boot == RoundRatings(sampled_games, boot.final_ratings)
              next == [boot EXCEPT !.sample_idx = @ + 1, !.samples = Append(@, sample)]
          IN  IF raised
              THEN boot' = next
              ELSE IF RoundCounts(R_boot)
              THEN \E rankings \in Rankings(R_boot) :
                      boot' = [next EXCEPT !.bootstrap_rankings = Append(@, rankings)]
              ELSE boot' = next
    /\ UNCHANGED <<pr, gb, inj, retro, live, audit, store, sc, mf, wcalc, sched, qw>>

\* After the loop: the report.
BootReturn ==
    /\ boot.pc = "loop"
    /\ boot.sample_idx >= boot.bootstrap_samples
    /\ boot' = [boot EXCEPT
                  !.pc = "done",
                  !.result =
                      IF boot.bootstrap_rankings = <<>>
                      THEN [samples_completed |-> 0,
                            samples_requested |-> boot.bootstrap_samples,
                            uncertainty_available |-> FALSE]
                      ELSE [samples_completed |-> Len(boot.bootstrap_rankings),
                            samples_requested |-> boot.bootstrap_samples,
                            uncertainty_available |-> TRUE,
                            baseline_ranking |-> boot.baseline_ranking,
                            team_uncertainty |->
                                TeamUncertainty(boot.bootstrap_rankings,
                                                boot.baseline_ranking)]]
    /\ UNCHANGED <<pr, gb, inj, retro, live, audit, store, sc, mf, wcalc, sched, qw>>

BootNext == BootCall \/ BootRound \/ BootReturn

SpecBoot == PRInit /\ [][BootNext]_vars

-----------------------------------------------------------------------------
(* Claims about the bootstrap.                                             *)

\* Round i drew rows that do not raise and that hold at least one team.
RoundSucceeds(i) ==
    LET sampled_games == Sampled(boot.games, boot.samples[i])
    IN  /\ \A k \in DOMAIN sampled_games : sampled_games[k].margin_is_number
        /\ TeamsOf(sampled_games) # {}

Successes == {i \in DOMAIN boot.samples : RoundSucceeds(i)}

(* C10: every requested round is run whatever the earlier rounds did; the  *)
(* rank maps kept, and samples_completed, count exactly the rounds that    *)
(* neither raised nor came out without ratings; the statistics are taken   *)
(* over those rounds only; with no such round the report is                *)
(* samples_completed = 0, uncertainty_available = false.                   *)
C10_BootstrapSkipsFailures ==
    /\ boot.pc \in {"loop", "done"} =>
          /\ Len(boot.samples) = boot.sample_idx
          /\ Len(boot.bootstrap_rankings) = Cardinality(Successes)
    /\ boot.pc = "done" =>
          /\ Len(boot.samples) = boot.bootstrap_samples
          /\ boot.result.samples_completed = Cardinality(Successes)
          /\ boot.result.samples_requested = boot.bootstrap_samples
          /\ boot.result.uncertainty_available <=> Successes # {}
          /\ Successes = {} =>
                boot.result = [samples_completed |-> 0,
                               samples_requested |-> boot.bootstrap_samples,
                               uncertainty_available |-> FALSE]
          /\ Successes # {} =>
                /\ DOMAIN boot.result.team_uncertainty =
                      UNION {TeamsOf(Sampled(boot.games, boot.samples[i])) : i \in Successes}
                /\ \A team \in DOMAIN boot.result.team_uncertainty :
                      boot.result.team_uncertainty[team].samples_present =
                          Cardinality({i \in Successes :
                              team \in TeamsOf(Sampled(boot.games, boot.samples[i]))})

\* The first round raised, the second produced a rank map, and the report
\* counts one sample.
C10_Witness ==
    /\ boot.pc = "done"
    /\ boot.bootstrap_samples = 2
    /\ ~RoundSucceeds(1)
    /\ boot.games # <<>>
    /\ RoundSucceeds(2)
    /\ boot.result.samples_completed = 1
    /\ boot.result.uncertainty_available

(* C7: once the graphs of a run are built, every team of a game is a node  *)
(* of the team graph and every conference of a game a node of the          *)
(* conference graph, with or without an edge, and the stage-1 and stage-2  *)
(* PageRank results have a score for every observed conference and team.   *)
C7_AllNodesPresent ==
    /\ RetroStage1Ran =>
          /\ retro.G_team.nodes = TeamsOf(retro.games)
          /\ retro.G_conf.nodes = ConferencesOf(retro.games)
          /\ DOMAIN retro.S_raw = ConferencesOf(retro.games)
          /\ (retro.pc # "stage2" \/ retro.outer_iter >= 1) =>
                DOMAIN retro.R = TeamsOf(retro.games)
    /\ LiveStage1Ran =>
          /\ live.G_team.nodes = TeamsOf(live.games)
          /\ live.G_conf.nodes = ConferencesOf(live.games)
          /\ DOMAIN live.S_raw = ConferencesOf(live.games)
          /\ live.pc = "done" =>
                /\ live.result.success
                /\ DOMAIN live.saved.R = TeamsOf(live.games)

\* A season with three conferences, one of them (SEC) without any
\* cross-conference game, rated in both stages.
C7_Witness ==
    /\ retro.pc = "done"
    /\ RetroStage1Ran
    /\ DOMAIN retro.result.conference_rankings = {"SEC", "Big Ten", "ACC"}
    /\ DOMAIN retro.G_conf.weight = {<<"ACC", "Big Ten">>}
    /\ DOMAIN retro.result.final_rankings = {"Alabama", "Georgia", "Michigan", "Clemson"}

-----------------------------------------------------------------------------
(* Binary floating point.  A float is kept as the rational it denotes; an  *)
(* operation rounds its exact result to FloatBits significant bits, ties   *)
(* to the even significand, as IEEE 754 does with 53 bits.                 *)

\* Significant bits of the model's floats.
FloatBits == 3

\* 2**e for an integer e.
Pow2(e) == IF e >= 0 THEN <<Pow(2, e), 1>> ELSE <<1, Pow(2, -e)>>

\* 2**k <= a for a rational a > 0.
AtLeastPow2(a, k) ==
    IF k >= 0 THEN Pow(2, k) * a[2] <= a[1] ELSE a[2] <= a[1] * Pow(2, -k)

\* The exponent e with 2**(FloatBits-1) <= a / 2**e < 2**FloatBits, for
\* 0 < a < 2**(e+FloatBits), found from e downwards.
RECURSIVE FExponentFrom(_, _)
FExponentFrom(a, e) ==
    IF AtLeastPow2(a, e + FloatBits - 1) THEN e ELSE FExponentFrom(a, e - 1)

FExponent(a) == FExponentFrom(a, 3 - FloatBits)

\* Round to nearest, ties to even.
FRound(x) ==
    IF x[1] = 0 THEN Zero
    ELSE LET a == RAbs(x)
             e == FExponent(a)
             scaled == RDiv(a, Pow2(e))
             m == RFloor(scaled)
             frac == RSub(scaled, <<m, 1>>)
             up == RLt(Half, frac) \/ (frac = Half /\ m % 2 = 1)
             r == RMul(<<IF up THEN m + 1 ELSE m, 1>>, Pow2(e))
         IN  IF x[1] < 0 THEN RNeg(r) ELSE r

FAdd(a, b) == FRound(RAdd(a, b))
FSub(a, b) == FRound(RSub(a, b))
FDiv(a, b) == FRound(RDiv(a, b))

\* The running sum of np.add.reduce over fewer than eight values.
RECURSIVE FSumSeq(_, _)
FSumSeq(values, n) ==
    IF n = 0 THEN Zero ELSE FAdd(FSumSeq(values, n - 1), values[n])

\* np.mean of a non-empty list: the sum divided by the count.
np_mean(values) == FDiv(FSumSeq(values, Len(values)), <<Len(values), 1>>)

-----------------------------------------------------------------------------
(* src/src/bias_audit.py: BiasAudit.  team_ratings is a dict in insertion  *)
(* order: a sequence of [team, rating] items with distinct teams.          *)

\* BiasAudit._get_team_conference_mapping: the hard-coded table.  Its lists
\* are those of graph.py but for 'California' in place of 'Cal'.
audit_mapping(team) ==
    CASE team \in sec_teams -> "SEC"
      [] team \in big10_teams -> "Big Ten"
      [] team \in big12_teams -> "Big 12"
      [] team \in acc_teams -> "ACC"
      [] team \in (pac12_teams \ {"Cal"}) \cup {"California"} -> "Pac-12"
      [] OTHER -> None

\* list(team_ratings.values())
RatingValues(team_ratings) == [i \in DOMAIN team_ratings |-> team_ratings[i].rating]

\* The ratings, in order, of the teams of the set teams.
RatingsAmong(team_ratings, teams) ==
    RatingValues(SelectSeq(team_ratings, LAMBDA item : item.team \in teams))

\* max_deviation = max(max_deviation, deviation) over the groups, from 0.0.
MaxDeviation(deviation, groups) ==
    IF groups = {} THEN Zero ELSE RMax(Zero, RMaxOver(deviation, groups))

\* compute_neutrality_metric: a team the table does not know is skipped.
compute_neutrality_metric(team_ratings) ==
    IF team_ratings = <<>> THEN Zero
    ELSE LET global_mean == np_mean(RatingValues(team_ratings))
             teams == {team_ratings[i].team : i \in DOMAIN team_ratings}
             confs == {audit_mapping(team) : team \in teams} \ {None}
             deviation ==
                 [conf \in confs |->
                     RAbs(FSub(np_mean(RatingsAmong(team_ratings,
                                   {t \in teams : audit_mapping(t) = conf})),
                               global_mean))]
         IN  MaxDeviation(deviation, confs)

\* team_to_conf.get(team, 'Independent')
audit_mapping_or_independent(team) ==
    IF audit_mapping(team) = None THEN "Independent" ELSE audit_mapping(team)

RECURSIVE RMinOver(_, _)
RMinOver(f, S) ==
    LET k == CHOOSE k \in S : TRUE
    IN  IF S = {k} THEN f[k] ELSE RMin(f[k], RMinOver(f, S \ {k}))

\* compute_detailed_metrics (the std, the timestamp and the team lists are
\* left out): a team the table does not know is put under 'Independent'.
compute_detailed_metrics(team_ratings, threshold, week) ==
    IF team_ratings = <<>> THEN [neutrality_metric |-> Zero, conferences |-> EmptyMap]
    ELSE LET global_mean == np_mean(RatingValues(team_ratings))
             teams == {team_ratings[i].team : i \in DOMAIN team_ratings}
             confs == {audit_mapping_or_independent(team) : team \in teams}
             ratings(conf) ==
                 RatingsAmong(team_ratings,
                     {t \in teams : audit_mapping_or_independent(t) = conf})
             conference_analysis ==
                 [conf \in confs |->
                     [mean_rating |-> np_mean(ratings(conf)),
                      team_count |-> Len(ratings(conf)),
                      deviation_from_global |->
                          RAbs(FSub(np_mean(ratings(conf)), global_mean)),
                      min_rating |-> RMinOver(ratings(conf), DOMAIN ratings(conf)),
                      max_rating |-> RMaxOver(ratings(conf), DOMAIN ratings(conf))]]
             max_deviation ==
                 MaxDeviation([conf \in confs |->
                                  conference_analysis[conf].deviation_from_global],
                              confs)
         IN  [neutrality_metric |-> max_deviation,
              global_mean |-> global_mean,
              week |-> week,
              conferences |-> conference_analysis,
              bias_threshold |-> threshold,
              passes_audit |-> RLe(max_deviation, threshold),
              total_teams |-> Len(team_ratings),
              total_conferences |-> Cardinality(confs)]

\* max(0.01, min(0.1, current_lambda * 0.9))
auto_tune_lambda(current_lambda) ==
    RMax(<<1, 100>>, RMin(<<1, 10>>, RMul(current_lambda, <<9, 10>>)))

-----------------------------------------------------------------------------
(* The bias audit of a pipeline run (live_pipeline.py, steps 6-8) and a    *)
(* direct call of compute_neutrality_metric.                               *)

\* Bound of the number of rated teams.
MaxTeams == 3

\* The teams of the audited ratings, in the order the ratings list them.
AuditTeams == <<"Alabama", "Georgia", "Texas", "Toledo", "Notre Dame">>

\* The conference of each team in the data of two seasons (None: an
\* independent).  Texas moved from the Big 12 to the SEC.
SeasonData ==
    { [team \in Range(AuditTeams) |->
          CASE team \in {"Alabama", "Georgia"} -> "SEC"
            [] team = "Texas" -> texas_conference
            [] team = "Toledo" -> "MAC"
            [] OTHER -> None] : texas_conference \in {"Big 12", "SEC"} }

AuditRatings == {<<1, 8>>, <<1, 2>>, <<3, 4>>}

\* The rating dicts: at most MaxTeams of the teams, in the order of
\* AuditTeams, each with a rating.
AuditRatingDicts ==
    LET chosen == {T \in SUBSET Range(AuditTeams) : Cardinality(T) <= MaxTeams}
        listed(T) == SelectSeq(AuditTeams, LAMBDA team : team \in T)
    IN  UNION { { [i \in DOMAIN listed(T) |-> [team |-> listed(T)[i], rating |-> r[listed(T)[i]]]] :
                    r \in [T -> AuditRatings] } : T \in chosen }

\* config['bias_audit'] and config['recency']['lambda']
AuditConfigs ==
    [threshold : {Zero, <<1, 16>>},
     auto_tune_threshold : {<<1, 16>>},
     recency_lambda : {<<1, 100>>, <<1, 20>>, <<1, 5>>}]

NoSuggestion == [made |-> FALSE, new_lambda |-> Zero]

\* The pipeline and its components are constructed from the config: the
\* WeightCalculator takes its recency lambda from it.
AuditConstruct ==
    /\ audit.pc = "idle"
    /\ \E config \in AuditConfigs, season \in SeasonData :
          audit' = [pc |-> "ready", config |-> config,
                    calc_lambda |-> config.recency_lambda,
                    season |-> season, team_ratings |-> <<>>,
                    metrics_history |-> <<>>, bias_metrics |-> [neutrality_metric |-> Zero, conferences |-> EmptyMap],
                    B |-> Zero, suggestion |-> NoSuggestion,
                    direct |-> Zero, used_lambda |-> Zero]
    /\ UNCHANGED <<pr, gb, inj, retro, boot, live, store, sc, mf, wcalc, sched, qw>>

\* A direct call of compute_neutrality_metric.
AuditNeutrality ==
    /\ audit.pc = "ready"
    /\ \E team_ratings \in AuditRatingDicts :
          audit' = [audit EXCEPT !.pc = "direct",
                                 !.team_ratings = team_ratings,
                                 !.direct = compute_neutrality_metric(team_ratings)]
    /\ UNCHANGED <<pr, gb, inj, retro, boot, live, store, sc, mf, wcalc, sched, qw>>

\* Step 6: compute_detailed_metrics(R, S, week), which appends its report
\* to metrics_history unless R is empty.
AuditStep6 ==
    /\ audit.pc = "ready"
    /\ \E team_ratings \in AuditRatingDicts, week \in CurrentWeeks :
          LET metrics == compute_detailed_metrics(team_ratings, audit.config.threshold, week)
          IN  audit' = [audit EXCEPT
                          !.pc = "tune",
                          !.team_ratings = team_ratings,
                          !.bias_metrics = metrics,
                          !.B = metrics.neutrality_metric,
                          !.metrics_history =
                              IF team_ratings = <<>> THEN @ ELSE Append(@, metrics)]
    /\ UNCHANGED <<pr, gb, inj, retro, boot, live, store, sc, mf, wcalc, sched, qw>>

\* KeepLambda is what the pipeline does with the suggestion; ApplyLambda is
\* what applying it would be.
ApplyLambda(current_lambda, new_lambda) == new_lambda
KeepLambda(current_lambda, new_lambda) == current_lambda

\* if B > auto_tune_threshold: new_lambda = auto_tune_lambda(), logged.
AuditTune ==
    /\ audit.pc = "tune"
    /\ audit' =
          IF RLt(audit.config.auto_tune_threshold, audit.B)
          THEN LET new_lambda == auto_tune_lambda(audit.config.recency_lambda)
               IN  [audit EXCEPT
                      !.pc = "persist",
                      !.suggestion = [made |-> TRUE, new_lambda |-> new_lambda],
                      !.config.recency_lambda = KeepLambda(@, new_lambda),
                      !.calc_lambda = KeepLambda(@, new_lambda)]
          ELSE [audit EXCEPT !.pc = "persist"]
    /\ UNCHANGED <<pr, gb, inj, retro, boot, live, store, sc, mf, wcalc, sched, qw>>

\* Steps 7-8 and the summary of the result.
AuditFinish ==
    /\ audit.pc = "persist"
    /\ audit' = [audit EXCEPT !.pc = "ran"]
    /\ UNCHANGED <<pr, gb, inj, retro, boot, live, store, sc, mf, wcalc, sched, qw>>

\* A weight computation after the run: recency_factor reads the
\* calculator's lambda.
AuditWeights ==
    /\ audit.pc = "ran"
    /\ audit' = [audit EXCEPT !.pc = "weighed", !.used_lambda = audit.calc_lambda]
    /\ UNCHANGED <<pr, gb, inj, retro, boot, live, store, sc, mf, wcalc, sched, qw>>

AuditNext ==
    \/ AuditConstruct
    \/ AuditNeutrality
    \/ AuditStep6
    \/ AuditTune
    \/ AuditFinish
    \/ AuditWeights

SpecAudit == PRInit /\ [][AuditNext]_vars

-----------------------------------------------------------------------------
(* Claims about the bias audit.                                            *)

\* Step 6 of the run has reported on a non-empty rating dict.
AuditReported ==
    /\ audit.pc \in {"tune", "persist", "ran", "weighed"}
    /\ audit.team_ratings # <<>>

\* max over the conferences c of the season's data of
\* |mean(R | c) - mean(R)|, the teams grouped by that data.
SeasonMetric(team_ratings, season) ==
    LET global_mean == np_mean(RatingValues(team_ratings))
        teams == {team_ratings[i].team : i \in DOMAIN team_ratings}
        confs == {season[team] : team \in teams} \ {None}
        deviation ==
            [conf \in confs |->
                RAbs(FSub(np_mean(RatingsAmong(team_ratings,
                              {t \in teams : season[t] = conf})),
                          global_mean))]
    IN  MaxDeviation(deviation, confs)

(* C11: the neutrality metric a run reports is the maximum, over the       *)
(* conferences of the season's data that have a rated team, of the         *)
(* distance between the mean rating of the conference's teams and the mean *)
(* rating of all teams, and the audit passes exactly when that maximum is  *)
(* at most the bias threshold.                                             *)
C11_MetricOverSeasonConferences ==
    AuditReported =>
        LET B == SeasonMetric(audit.team_ratings, audit.season)
        IN  /\ audit.bias_metrics.neutrality_metric = B
            /\ audit.bias_metrics.passes_audit <=> RLe(B, audit.config.threshold)

\* Every team has the same rating.
UniformRatings(team_ratings) ==
    \A i, j \in DOMAIN team_ratings : team_ratings[i].rating = team_ratings[j].rating

(* C12: when every rated team has the same rating, the neutrality metric   *)
(* of the report and of compute_neutrality_metric is 0 and the audit       *)
(* passes, whatever the non-negative threshold.                            *)
C12_UniformRatingsAreNeutral ==
    /\ (AuditReported /\ UniformRatings(audit.team_ratings)) =>
          /\ audit.bias_metrics.neutrality_metric = Zero
          /\ audit.bias_metrics.passes_audit
    /\ (audit.pc = "direct" /\ UniformRatings(audit.team_ratings)) =>
          audit.direct = Zero

\* x limited to the interval [lo, hi].
Clamp(x, lo, hi) == IF RLt(x, lo) THEN lo ELSE IF RLt(hi, x) THEN hi ELSE x

AuditStep ==
    /\ audit.pc # "idle" =>
          /\ audit'.config = audit.config
          /\ audit'.calc_lambda = audit.calc_lambda
    /\ audit'.pc \in {"ready", "direct", "tune"} => ~audit'.suggestion.made
    /\ audit'.pc \in {"persist", "ran", "weighed"} =>
          /\ audit'.suggestion.made <=>
                RLt(audit'.config.auto_tune_threshold, audit'.B)
          /\ audit'.suggestion.made =>
                audit'.suggestion.new_lambda =
                    Clamp(RMul(<<9, 10>>, audit'.config.recency_lambda),
                          <<1, 100>>, <<1, 10>>)
    /\ audit'.pc = "weighed" => audit'.used_lambda = audit'.config.recency_lambda

(* C13: a lambda suggestion is made only by a run whose B exceeds the      *)
(* auto-tune threshold, it is clamp(0.9 * lambda, 0.01, 0.1), and no step  *)
(* of a run changes the configured lambda or the lambda the weight         *)
(* calculator reads: a weight computation after the run uses the original. *)
C13_SuggestionNeverApplied == [][AuditStep]_vars

\* A run that suggested 0.1 for the configured 0.2 and a later weight
\* computation that still used 0.2.
C13_Witness ==
    /\ audit.pc = "weighed"
    /\ audit.suggestion = [made |-> TRUE, new_lambda |-> <<1, 10>>]
    /\ audit.used_lambda = <<1, 5>>
    /\ audit.config.recency_lambda = <<1, 5>>

-----------------------------------------------------------------------------
(* src/src/storage.py and the weekly runs of run_live over it.             *)

\* Bound of the week numbers.
MaxWeek == 3

\* Bound of the number of runs.
MaxRuns == 3

Seasons == {2023, 2024}

\* The games of a season, by week.
Schedule ==
    <<Game("Liberty", "UConn", None, None, 3, "neutral", 1, "regular"),
      Game("Liberty", "Army", None, None, 1, "neutral", 1, "regular"),
      Game("Alabama", "Georgia", "SEC", "SEC", 7, "home", 2, "regular"),
      Game("Georgia", "Alabama", "SEC", "SEC", 3, "neutral", 3, "regular")>>

\* fetch_results_upto_week: the games of weeks 1..week, of a season whose
\* first games are in week first_week.
GamesUpTo(week, first_week) ==
    SelectSeq(Schedule, LAMBDA game : first_week <= game.week /\ game.week <= week)

\* json.dump writes a dict as the list of its key/value members (a float by
\* its repr, which reads back as the same float); json.load builds the
\* dict of the members it reads.
JsonDump(dict) == {<<key, dict[key]>> : key \in DOMAIN dict}
JsonLoad(members) ==
    [key \in {m[1] : m \in members} |-> (CHOOSE m \in members : m[1] = key)[2]]

NoFile == [exists |-> FALSE, conference_ratings |-> {}, team_ratings |-> {}]

\* save_ratings: ratings_{season}_week{week:02d}.json is (over)written.
save_ratings(files, S, R, week, season) ==
    [files EXCEPT ![<<season, week>>] =
        [exists |-> TRUE, conference_ratings |-> JsonDump(S),
         team_ratings |-> JsonDump(R)]]

\* load_ratings: ({}, {}) when the file is not found.
load_ratings(files, week, season) ==
    IF files[<<season, week>>].exists
    THEN [S |-> JsonLoad(files[<<season, week>>].conference_ratings),
          R |-> JsonLoad(files[<<season, week>>].team_ratings)]
    ELSE [S |-> EmptyMap, R |-> EmptyMap]

\* prev_week = current_week - 1
SameWeek(current_week) == current_week
PrevWeek(current_week) == current_week - 1

\* load_prev_ratings: ({}, {}) for week 1 and when the previous week has no
\* team ratings.
load_prev_ratings(files, current_week, season) ==
    IF current_week <= 1 THEN [S |-> EmptyMap, R |-> EmptyMap]
    ELSE LET prev == load_ratings(files, PrevWeek(current_week), season)
         IN  IF prev.R = EmptyMap THEN [S |-> EmptyMap, R |-> EmptyMap] ELSE prev

NotEmitted == [exists |-> FALSE, S |-> EmptyMap, R |-> EmptyMap]

\* The processed-data directory is created empty.  emitted records, next
\* to the files, the ratings the last successful run of a week returned.
StoreOpen ==
    /\ store.pc = "idle"
    /\ \E first_week \in 1..2 :
          store' = [pc |-> "open", first_week |-> first_week, runs |-> 0,
                    files |-> [key \in Seasons \X (1..MaxWeek) |-> NoFile],
                    emitted |-> [key \in Seasons \X (1..MaxWeek) |-> NotEmitted]]
    /\ UNCHANGED <<pr, gb, inj, retro, boot, live, audit, sc, mf, wcalc, sched, qw>>

\* run_live(week, season), steps 1-2: ingest, the empty-data return, the
\* previous week's ratings.
IncCall ==
    /\ store.pc = "open"
    /\ live.pc \in {"idle", "done"}
    /\ store.runs < MaxRuns
    /\ \E week \in 1..MaxWeek, season \in Seasons :
          LET games == GamesUpTo(week, store.first_week)
              prev == load_prev_ratings(store.files, week, season)
          IN  live' = [pc |-> IF games = <<>> THEN "done" ELSE "stage1",
                       games |-> games, R_prev |-> prev.R, S_prev |-> prev.S,
                       week |-> week, season |-> season,
                       G_conf |-> EmptyGraph, G_team |-> EmptyGraph,
                       S_raw |-> EmptyMap, S |-> EmptyMap,
                       saved |-> None,
                       result |-> IF games = <<>> THEN NoGameData ELSE None]
    /\ store' = [store EXCEPT !.runs = @ + 1]
    /\ UNCHANGED <<pr, gb, inj, retro, boot, audit, sc, mf, wcalc, sched, qw>>

\* Steps 5-8 of run_live with the storage: LiveStage2, the ratings written
\* by save_ratings.
IncStage2 ==
    /\ store.pc = "open"
    /\ live.pc = "stage2"
    /\ LET R == pagerank_of(inject_conf_strength(live.G_team, live.S))
           key == <<live.season, live.week>>
       IN  IF R = EmptyMap
           THEN /\ live' = [live EXCEPT !.pc = "done",
                              !.result = [success |-> FALSE,
                                          error |-> "PageRank computation failed"]]
                /\ UNCHANGED store
           ELSE /\ live' = [live EXCEPT !.pc = "done",
                              !.saved = [S |-> live.S, R |-> R],
                              !.result = [success |-> TRUE, top_teams |-> R,
                                          conferences_ranked |-> Cardinality(DOMAIN live.S)]]
                /\ store' = [store EXCEPT
                               !.files = save_ratings(@, live.S, R, live.week, live.season),
                               !.emitted[key] = [exists |-> TRUE, S |-> live.S, R |-> R]]
    /\ UNCHANGED <<pr, gb, inj, retro, boot, audit, sc, mf, wcalc, sched, qw>>

IncNext == StoreOpen \/ IncCall \/ LiveStage1 \/ IncStage2

SpecIncremental == PRInit /\ [][IncNext]_vars

-----------------------------------------------------------------------------
(* Claims about incremental mode.                                          *)

\* A run of run_live has loaded its priors.
IncLoaded ==
    /\ store.pc = "open"
    /\ live.pc \in {"stage1", "stage2", "done"}
    /\ live.games # <<>>

\* What the last successful run of the week before returned, if any.
EmittedBefore ==
    IF live.week > 1 THEN store.emitted[<<live.season, live.week - 1>>]
    ELSE NotEmitted

\* The prior of a cold start: 0.5 for every team of the games.
NeutralPrior(games) == [team \in TeamsOf(games) |-> Half]

-----------------------------------------------------------------------------
(* A hindsight run fed back as its own seed: the ratings a converged run   *)
(* saved are stored as the season's week-15 ratings, which run_retro loads *)
(* as R_init, and the season is run again.                                 *)

RetroReseed ==
    /\ retro.pc = "done"
    /\ retro.result.success
    /\ retro.converged
    /\ store.pc = "idle"
    /\ \E max_outer \in 1..MaxOuter :
          retro' = RetroStart(retro.games, retro.saved.R, max_outer)
    /\ store' = [pc |-> "seeded", R |-> retro.saved.R,
                 iterations |-> retro.result.iterations]
    /\ UNCHANGED <<pr, gb, inj, boot, live, audit, sc, mf, wcalc, sched, qw>>

ReseedNext == RetroNext \/ RetroReseed

SpecReseed == PRInit /\ [][ReseedNext]_vars

-----------------------------------------------------------------------------
(* Further claims about conference-strength injection.                     *)

\* k x S
ScaleRatings(S, k) == [c \in DOMAIN S |-> RMul(<<k, 1>>, S[c])]

ScaleFactors == {2, 4}

(* C16: injecting S and injecting k x S (k > 0) into the same team graph   *)
(* gives the same edge weights.                                            *)
C16_ScaleInvariant ==
    inj.pc = "done" =>
        \A k \in ScaleFactors :
            inject_conf_strength(inj.G, ScaleRatings(inj.conf_ratings, k)).weight
                = inj.result.weight

\* An edge whose endpoints the function places in different conferences.
CrossConference(G, e) ==
    get_team_conference_mapping(G)[e[1]] # get_team_conference_mapping(G)[e[2]]

C18_EmptyRatingsNoChange ==
    (inj.pc = "done" /\ inj.conf_ratings = EmptyMap) =>
        /\ inj.result = inj.G
        /\ \A e \in DOMAIN inj.G.weight :
              ~IntraRated(inj.G, inj.conf_ratings, e)

\* A call with no ratings on a graph that has intra-conference edges.
C18_Witness ==
    /\ inj.pc = "done"
    /\ inj.conf_ratings = EmptyMap
    /\ {<<"Alabama", "Georgia">>, <<"Michigan", "Ohio State">>,
        <<"Team_A_SEC", "Team_B_SEC">>} \subseteq DOMAIN inj.G.weight
    /\ inj.result.weight = inj.G.weight

-----------------------------------------------------------------------------
(* The four-team scenario: A beats B 30-10 at home (conference X), C beats *)
(* D 20-17 on neutral ground (conference Y), A beats C 24-21 on neutral    *)
(* ground.  build_graphs, then the two PageRank stages of the pipeline.    *)

ScenarioWeeks == {1, 2}
ScenarioCurrentWeeks == {2, 3}

ScenarioGames(wk) ==
    { Game("A", "B", "X", "X", 20, "home", wk[1], "regular"),
      Game("C", "D", "Y", "Y", 3, "neutral", wk[2], "regular"),
      Game("A", "C", "X", "Y", 3, "neutral", wk[3], "regular") }

\* The rows in any order, the three games in one week.
ScenarioGameSeqs ==
    UNION { { games \in [1..3 -> ScenarioGames(<<wk, wk, wk>>)] :
                \A i, j \in 1..3 : i # j => games[i] # games[j] } :
            wk \in ScenarioWeeks }

\* prev_ratings: none (every team 0.5), a previous week's ratings, ratings
\* under which A was the favourite twice, and ratings under which D was as
\* far behind C as ratings allow.
ScenarioPriors ==
    { EmptyMap,
      [t \in {"A", "B", "C", "D"} |-> <<1, 4>>],
      [t \in {"A", "B", "C", "D"} |->
          CASE t = "A" -> One [] t = "B" -> Zero
            [] t = "C" -> Half [] t = "D" -> Zero],
      [t \in {"A", "B", "C", "D"} |->
          IF t \in {"A", "C"} THEN One ELSE Zero] }

ScBuild ==
    /\ gb.pc = "idle"
    /\ \E games \in ScenarioGameSeqs, ratings \in ScenarioPriors,
          week \in ScenarioCurrentWeeks :
          gb' = GBStart("live", games, ratings, week)
    /\ UNCHANGED <<pr, inj, retro, boot, live, audit, store, sc, mf, wcalc, sched, qw>>

\* S = pagerank(G_conf)
ScStage1 ==
    /\ gb.pc = "done"
    /\ sc.pc = "idle"
    /\ sc' = [pc |-> "stage1", S |-> pagerank_of(gb.G_conf), R |-> None]
    /\ UNCHANGED <<pr, gb, inj, retro, boot, live, audit, store, mf, wcalc, sched, qw>>

\* inject_conf_strength(G_team, S); R = pagerank(G_team)
ScStage2 ==
    /\ sc.pc = "stage1"
    /\ sc' = [sc EXCEPT !.pc = "done",
                        !.R = pagerank_of(inject_conf_strength(gb.G_team, sc.S))]
    /\ UNCHANGED <<pr, gb, inj, retro, boot, live, audit, store, mf, wcalc, sched, qw>>

ScenarioNext == ScBuild \/ GBProcess \/ GBReturn \/ ScStage1 \/ ScStage2

SpecScenario == PRInit /\ [][ScenarioNext]_vars

\* The edges of the team graph that run from the loser of a game to its
\* winner, and those that run the other way.
CreditEdges(G_team, games) ==
    {e \in DOMAIN G_team.weight :
        \E g \in Range(games) : e = <<g.loser, g.winner>>}
PenaltyEdges(G_team, games) ==
    {e \in DOMAIN G_team.weight :
        \E g \in Range(games) : e = <<g.winner, g.loser>>}

-----------------------------------------------------------------------------
(* WeightCalculator.margin_factor, called on two margins one after the     *)
(* other.                                                                  *)

MaxMargin == 40

MfCall ==
    /\ mf.pc = "idle"
    /\ \E m1 \in 0..MaxMargin, m2 \in 0..MaxMargin :
          /\ m1 <= m2
          /\ mf' = [pc |-> "called", m1 |-> m1, m2 |-> m2,
                    f1 |-> None, f2 |-> None]
    /\ UNCHANGED <<pr, gb, inj, retro, boot, live, audit, store, sc, wcalc, sched, qw>>

MfFirst ==
    /\ mf.pc = "called"
    /\ mf' = [mf EXCEPT !.pc = "first", !.f1 = margin_factor(mf.m1)]
    /\ UNCHANGED <<pr, gb, inj, retro, boot, live, audit, store, sc, wcalc, sched, qw>>

MfSecond ==
    /\ mf.pc = "first"
    /\ mf' = [mf EXCEPT !.pc = "done", !.f2 = margin_factor(mf.m2)]
    /\ UNCHANGED <<pr, gb, inj, retro, boot, live, audit, store, sc, wcalc, sched, qw>>

MarginNext == MfCall \/ MfFirst \/ MfSecond

SpecMargin == PRInit /\ [][MarginNext]_vars

\* margin_factor(1) = 1.0, and a margin below 1 counts as 1.
MarginAtOne == (mf.pc = "done" /\ mf.m1 <= 1) => mf.f1 = One

\* m1 <= m2 gives margin_factor(m1) <= margin_factor(m2).
MarginMonotone == mf.pc = "done" => ~RLt(mf.f2, mf.f1)

\* Above the configured cap the factor no longer changes.
MarginFlatAboveCap ==
    (mf.pc = "done" /\ mf.m1 > margin_cap) => mf.f1 = mf.f2

(* C20: margin_factor(1) is exactly 1.0, margin_factor is non-decreasing   *)
(* for margins >= 0 (a margin below 1 counts as 1), and it is constant for *)
(* every margin above the configured margin cap.                           *)
C20_MarginFactor == MarginAtOne /\ MarginMonotone /\ MarginFlatAboveCap

-----------------------------------------------------------------------------
(* WeightCalculator.risk_multipliers, called with one base weight on two   *)
(* expected win probabilities p1 < p2.                                     *)

RiskProbabilities ==
    { Zero, <<1, 2000>>, <<1, 1000>>, <<1, 100>>, <<1, 11>>, Half, <<10, 11>>,
      <<999, 1000>>, <<1999, 2000>>, One }

RiskBases == {One, <<3, 2>>, <<483, 100>>}

RiskCall ==
    /\ wcalc.pc = "idle"
    /\ \E base \in RiskBases, p1 \in RiskProbabilities, p2 \in RiskProbabilities :
          /\ RLt(p1, p2)
          /\ wcalc' = [pc |-> "risk", base_weight |-> base, p1 |-> p1, p2 |-> p2,
                       first |-> None, second |-> None]
    /\ UNCHANGED <<pr, gb, inj, retro, boot, live, audit, store, sc, mf, sched, qw>>

RiskFirst ==
    /\ wcalc.pc = "risk"
    /\ wcalc' = [wcalc EXCEPT !.pc = "risk_first",
                   !.first = risk_multipliers(wcalc.base_weight, wcalc.p1)]
    /\ UNCHANGED <<pr, gb, inj, retro, boot, live, audit, store, sc, mf, sched, qw>>

RiskSecond ==
    /\ wcalc.pc = "risk_first"
    /\ wcalc' = [wcalc EXCEPT !.pc = "risk_done",
                   !.second = risk_multipliers(wcalc.base_weight, wcalc.p2)]
    /\ UNCHANGED <<pr, gb, inj, retro, boot, live, audit, store, sc, mf, sched, qw>>

RiskNext == RiskCall \/ RiskFirst \/ RiskSecond

SpecRisk == PRInit /\ [][RiskNext]_vars

\* Credit does not rise and penalty does not fall as p grows.
RiskWeaklyMonotone ==
    wcalc.pc = "risk_done" =>
        /\ RLe(wcalc.second.credit, wcalc.first.credit)
        /\ RLe(wcalc.first.penalty, wcalc.second.penalty)

(* C21: for a fixed positive base weight and p1 < p2 in [0, 1] the credit  *)
(* at p1 is strictly greater than the credit at p2 and the penalty at p1   *)
(* is strictly smaller than the penalty at p2.                             *)
C21_RiskStrictlyMonotone ==
    wcalc.pc = "risk_done" =>
        /\ RLt(wcalc.second.credit, wcalc.first.credit)
        /\ RLt(wcalc.first.penalty, wcalc.second.penalty)

-----------------------------------------------------------------------------
(* src/src/quality_wins.py: QualityWinsCalculator.calculate_quality_wins   *)
(* on the team graph build_graphs returned.                                *)

\* team_graph.out_edges(team): the heads of the edges that leave team.
OutNeighbours(G, team) == {e[2] : e \in {d \in DOMAIN G.weight : d[1] = team}}

\* opponent_rating + edge_weight * 0.1
quality_score(G, team_ratings, team, loser) ==
    RAdd(Get(team_ratings, loser, Zero),
         RMul(G.weight[<<team, loser>>], <<1, 10>>))

\* wins.sort(reverse=True, key=score): the orders of the out-neighbours by
\* descending score; equal scores keep the order of the edges, which the
\* graph of the model does not record, so every order of them is included.
SortedWins(G, team_ratings, team) ==
    LET W == OutNeighbours(G, team)
    IN  { s \in [1..Cardinality(W) -> W] :
            /\ \A i, j \in DOMAIN s : i # j => s[i] # s[j]
            /\ \A i, j \in DOMAIN s :
                  i < j => ~RLt(quality_score(G, team_ratings, team, s[i]),
                                quality_score(G, team_ratings, team, s[j])) }

\* wins[:max_wins]
Take(s, k) == SubSeq(s, 1, IMin(k, Len(s)))

\* The dictionaries calculate_quality_wins can return.
calculate_quality_wins(team_graph, team_ratings, max_wins) ==
    { q \in [team_graph.nodes ->
                UNION { {Take(s, max_wins) :
                            s \in SortedWins(team_graph, team_ratings, team)} :
                        team \in team_graph.nodes }] :
        \A team \in team_graph.nodes :
            \E s \in SortedWins(team_graph, team_ratings, team) :
                q[team] = Take(s, max_wins) }

QwMaxWins == {1, 3}

QwCall ==
    /\ gb.pc = "done"
    /\ gb.mode = "live"
    /\ qw.pc = "idle"
    /\ \E team_ratings \in RatingMaps, max_wins \in QwMaxWins :
          qw' = [pc |-> "called", team_ratings |-> team_ratings,
                 max_wins |-> max_wins, quality_wins |-> None]
    /\ UNCHANGED <<pr, gb, inj, retro, boot, live, audit, store, sc, mf, wcalc, sched>>

QwReturn ==
    /\ qw.pc = "called"
    /\ \E quality_wins \in calculate_quality_wins(gb.G_team, qw.team_ratings,
                                                  qw.max_wins) :
          qw' = [qw EXCEPT !.pc = "done", !.quality_wins = quality_wins]
    /\ UNCHANGED <<pr, gb, inj, retro, boot, live, audit, store, sc, mf, wcalc, sched>>

QualityNext == GBBuild \/ GBProcess \/ GBReturn \/ QwCall \/ QwReturn

SpecQuality == PRInit /\ [][QualityNext]_vars

\* The teams that team defeated in at least one game.
Defeated(games, team) == {g.loser : g \in {h \in Range(games) : h.winner = team}}

\* No more than max_wins opponents are listed for any team.
QualityWinsAtMostMax ==
    qw.pc = "done" =>
        \A team \in gb.G_team.nodes : Len(qw.quality_wins[team]) <= qw.max_wins

(* C22: every opponent listed among a team's quality wins is a team it     *)
(* defeated in at least one game, and at most max_wins are listed.         *)
C22_QualityWinsAreWins ==
    qw.pc = "done" =>
        \A team \in gb.G_team.nodes :
            /\ Range(qw.quality_wins[team]) \subseteq Defeated(gb.games, team)
            /\ Len(qw.quality_wins[team]) <= qw.max_wins

-----------------------------------------------------------------------------
(* The stages of the two orchestrators, one statement of the loop body at  *)
(* a time: RetroPipeline.run_retro on retro, LivePipeline.run_live on      *)
(* live.  trace records the stages in the order they ran, built_from the   *)
(* ratings the graphs were built from, injected the conference ratings     *)
(* the current team graph has received.                                    *)

StageOuter == 3

StageWeeks == {1, 2}

\* An intra-conference game, a cross-conference game of the same
\* conference, and a game of two teams without conference.
StageGamePool ==
    { Game("Alabama", "Georgia", "SEC", "SEC", 3, "neutral", 1, "regular"),
      Game("Alabama", "Michigan", "SEC", "Big Ten", 3, "neutral", 1, "regular"),
      Game("Liberty", "UConn", None, None, 3, "neutral", 1, "regular") }

StageGameSeqs == UNION { [1..n -> StageGamePool] : n \in 1..2 }

\* Seed ratings: none, and a favourite among equals.
StageRatingMaps ==
    { EmptyMap,
      [t \in {"Alabama", "Georgia", "Michigan"} |->
          IF t = "Alabama" THEN Half ELSE <<1, 4>>] }

StageCall ==
    /\ retro.pc = "idle"
    /\ live.pc = "idle"
    /\ \E games \in StageGameSeqs, R_init \in StageRatingMaps, max_outer \in 1..StageOuter :
          retro' = [pc |-> "loop", games |-> games, max_outer |-> max_outer,
                    R |-> R_init, S |-> EmptyMap, outer_iter |-> 0,
                    converged |-> FALSE, G_conf |-> EmptyGraph,
                    G_team |-> EmptyGraph, S_new |-> EmptyMap, R_new |-> EmptyMap,
                    built_from |-> None, injected |-> <<>>, trace |-> <<>>]
    /\ UNCHANGED <<pr, gb, inj, boot, live, audit, store, sc, mf, wcalc, sched, qw>>

\* G_conf, G_team = rebuild_full_graph(games_df, R, hindsight=True)
StageRebuild ==
    /\ retro.pc = "loop"
    /\ retro.outer_iter < retro.max_outer
    /\ LET graphs == rebuild_full_graph(retro.games, retro.R)
       IN  retro' = [retro EXCEPT !.pc = "built",
                                  !.G_conf = graphs.G_conf,
                                  !.G_team = graphs.G_team,
                                  !.built_from = retro.R,
                                  !.injected = <<>>,
                                  !.trace = Append(@, "build")]
    /\ UNCHANGED <<pr, gb, inj, boot, live, audit, store, sc, mf, wcalc, sched, qw>>

\* S_new = pagerank(G_conf), uniform 0.5 when it is empty
StageConference ==
    /\ retro.pc = "built"
    /\ LET S_raw == pagerank_of(retro.G_conf)
       IN  retro' = [retro EXCEPT
                       !.pc = "stage1",
                       !.S_new = IF S_raw = EmptyMap
                                 THEN UniformConferences(ConferencesOf(retro.games))
                                 ELSE S_raw,
                       !.trace = Append(@, "conference")]
    /\ UNCHANGED <<pr, gb, inj, boot, live, audit, store, sc, mf, wcalc, sched, qw>>

\* self.graph_builder.inject_conf_strength(G_team, S_new, S_new)
StageInject ==
    /\ retro.pc = "stage1"
    /\ retro' = [retro EXCEPT
                   !.pc = "injected",
                   !.G_team = inject_conf_strength(retro.G_team, retro.S_new),
                   !.injected = Append(@, retro.S_new),
                   !.trace = Append(@, "inject")]
    /\ UNCHANGED <<pr, gb, inj, boot, live, audit, store, sc, mf, wcalc, sched, qw>>

\* R_new = pagerank(G_team); if not R_new: break
StageTeam ==
    /\ retro.pc = "injected"
    /\ LET R_new == pagerank_of(retro.G_team)
       IN  retro' = [retro EXCEPT
                       !.pc = IF R_new = EmptyMap THEN "done" ELSE "stage2",
                       !.R_new = R_new,
                       !.trace = Append(@, "team")]
    /\ UNCHANGED <<pr, gb, inj, boot, live, audit, store, sc, mf, wcalc, sched, qw>>

\* The convergence check and R, S = R_new, S_new on both of its branches.
StageCheck ==
    /\ retro.pc = "stage2"
    /\ LET adopted == AdoptRatings(retro.R_new, retro.S_new, retro.R, retro.S)
           converged == ConvergedTest(MaxDiff(retro.R_new, retro.R))
       IN  retro' = [retro EXCEPT
                       !.pc = IF converged THEN "done" ELSE "loop",
                       !.converged = converged,
                       !.R = adopted.R, !.S = adopted.S,
                       !.outer_iter = IF converged THEN @ ELSE @ + 1,
                       !.trace = Append(@, "check")]
    /\ UNCHANGED <<pr, gb, inj, boot, live, audit, store, sc, mf, wcalc, sched, qw>>

\* range(max_outer) is exhausted.
StageLoopEnd ==
    /\ retro.pc = "loop"
    /\ retro.outer_iter >= retro.max_outer
    /\ retro' = [retro EXCEPT !.pc = "done"]
    /\ UNCHANGED <<pr, gb, inj, boot, live, audit, store, sc, mf, wcalc, sched, qw>>

\* run_live, steps 1-2.
PassCall ==
    /\ live.pc = "idle"
    /\ retro.pc = "idle"
    /\ \E games \in StageGameSeqs, R_prev \in StageRatingMaps, week \in StageWeeks :
          live' = [pc |-> "init", games |-> games, R_prev |-> R_prev,
                   week |-> week, G_conf |-> EmptyGraph, G_team |-> EmptyGraph,
                   S |-> EmptyMap, R |-> EmptyMap, built_from |-> None,
                   injected |-> <<>>, trace |-> <<>>]
    /\ UNCHANGED <<pr, gb, inj, retro, boot, audit, store, sc, mf, wcalc, sched, qw>>

\* Step 3: G_conf, G_team = build_graphs(games_df, R_prev, week)
PassBuild ==
    /\ live.pc = "init"
    /\ LET graphs == build_graphs(live.games, live.R_prev, live.week)
       IN  live' = [live EXCEPT !.pc = "built",
                                !.G_conf = graphs.G_conf,
                                !.G_team = graphs.G_team,
                                !.built_from = live.R_prev,
                                !.trace = Append(@, "build")]
    /\ UNCHANGED <<pr, gb, inj, retro, boot, audit, store, sc, mf, wcalc, sched, qw>>

\* Step 4: S = pagerank(G_conf), 0.5 for every conference when it is empty
PassConference ==
    /\ live.pc = "built"
    /\ LET S_raw == pagerank_of(live.G_conf)
       IN  live' = [live EXCEPT
                      !.pc = "stage1",
                      !.S = IF S_raw = EmptyMap
                            THEN UniformConferences(live.G_conf.nodes)
                            ELSE S_raw,
                      !.trace = Append(@, "conference")]
    /\ UNCHANGED <<pr, gb, inj, retro, boot, audit, store, sc, mf, wcalc, sched, qw>>

\* Step 5, first half: inject_conf_strength(G_team, S, S_prev, self.config)
PassInject ==
    /\ live.pc = "stage1"
    /\ live' = [live EXCEPT
                  !.pc = "injected",
                  !.G_team = inject_conf_strength(live.G_team, live.S),
                  !.injected = Append(@, live.S),
                  !.trace = Append(@, "inject")]
    /\ UNCHANGED <<pr, gb, inj, retro, boot, audit, store, sc, mf, wcalc, sched, qw>>

\* Step 5, second half: R = pagerank(G_team)
PassTeam ==
    /\ live.pc = "injected"
    /\ live' = [live EXCEPT !.pc = "done",
                            !.R = pagerank_of(live.G_team),
                            !.trace = Append(@, "team")]
    /\ UNCHANGED <<pr, gb, inj, retro, boot, audit, store, sc, mf, wcalc, sched, qw>>

StagesNext ==
    \/ StageCall \/ StageRebuild \/ StageConference \/ StageInject \/ StageTeam
    \/ StageCheck \/ StageLoopEnd
    \/ PassCall \/ PassBuild \/ PassConference \/ PassInject \/ PassTeam

SpecStages == PRInit /\ [][StagesNext]_vars

StageOrder == <<"build", "conference", "inject", "team", "check">>

\* The stages ran in the order of StageOrder, n of them per round.
TraceInOrder(trace, n) ==
    \A i \in DOMAIN trace : trace[i] = StageOrder[((i - 1) % n) + 1]

\* The team PageRank has run in the current round.
TeamRanked(run) == run.trace # <<>> /\ run.trace[Len(run.trace)] \in {"team", "check"}

(* C23: in every hindsight iteration and in the incremental pass the      *)
(* stages run in the order build, conference PageRank, injection, team     *)
(* PageRank (then the convergence check); the team PageRank runs on the    *)
(* freshly built graph that has received this round's S exactly once; and  *)
(* hindsight iteration k+1 builds from the R that iteration k produced.    *)
C23_StageOrdering ==
    /\ retro.pc # "idle" =>
          /\ TraceInOrder(retro.trace, 5)
          /\ retro.pc = "stage2" =>
                /\ retro.injected = <<retro.S_new>>
                /\ retro.built_from = retro.R
                /\ retro.R_new =
                      pagerank_of(inject_conf_strength(
                          rebuild_full_graph(retro.games, retro.R).G_team,
                          retro.S_new))
          /\ (retro.pc \in {"built", "stage1", "injected"} /\ retro.outer_iter >= 1) =>
                retro.built_from = retro.R_new
          /\ retro.pc = "injected" => retro.injected = <<retro.S_new>>
    /\ live.pc # "idle" =>
          /\ TraceInOrder(live.trace, 4)
          /\ Len(live.trace) <= 4
          /\ live.pc = "done" =>
                /\ live.injected = <<live.S>>
                /\ live.R =
                      pagerank_of(inject_conf_strength(
                          build_graphs(live.games, live.R_prev, live.week).G_team,
                          live.S))

\* The second hindsight iteration has ranked the teams of a season in
\* which the injection changed the team graph.
C23_Witness ==
    /\ retro.pc = "stage2"
    /\ retro.outer_iter = 1
    /\ Len(retro.trace) = 9
    /\ retro.G_team # rebuild_full_graph(retro.games, retro.R).G_team
    /\ retro.R_new # pagerank_of(rebuild_full_graph(retro.games, retro.R).G_team)

-----------------------------------------------------------------------------
(* Injection and conferences without a rating.                             *)

\* S with the neutral strength 0.5 entered for conference c.
WithNeutral(S, c) == [k \in DOMAIN S \cup {c} |-> IF k \in DOMAIN S THEN S[k] ELSE Half]

\* An edge inside a conference that has no entry in S.
IntraUnrated(G, S, e) ==
    LET team_to_conf == get_team_conference_mapping(G)
    IN  /\ team_to_conf[e[1]] = team_to_conf[e[2]]
        /\ team_to_conf[e[1]] \notin DOMAIN S

(* C24: with S non-empty, an intra-conference edge of a conference that    *)
(* has no entry in S is rescaled as if S held 0.5 for that conference.     *)
C24_MissingConferenceIsNeutral ==
    (inj.pc = "done" /\ inj.conf_ratings # EmptyMap) =>
        \A e \in DOMAIN inj.G.weight :
            IntraUnrated(inj.G, inj.conf_ratings, e) =>
                inj.result.weight[e] =
                    inject_conf_strength(
                        inj.G,
                        WithNeutral(inj.conf_ratings,
                                    get_team_conference_mapping(inj.G)[e[1]])
                    ).weight[e]

-----------------------------------------------------------------------------
(* Game processing and WeightCalculator.calculate_game_weights: a raw game *)
(* is processed into a row (winner's side venue, margin), and the row is   *)
(* weighted as a regular-season game and as a postseason game.             *)

\* _legacy_process_game_data: neutral, else home when the home team won,
\* else away.
legacy_venue(neutral_site, home_score, away_score) ==
    IF neutral_site THEN "neutral"
    ELSE IF home_score > away_score THEN "home" ELSE "away"

\* validate_complete_dataset: home or away by the score, then neutral.
validator_venue(neutral_site, home_points, away_points) ==
    IF neutral_site THEN "neutral"
    ELSE IF home_points > away_points THEN "home" ELSE "away"

\* WeightCalculator.calculate_game_weights
calculate_game_weights(game, current_week, winner_rating, loser_rating) ==
    LET margin_weight == margin_factor(game.margin)
        venue_weight == venue_factor(game.venue)
        weeks_ago == IMax(0, current_week - game.week)
        recency_weight == recency_factor(weeks_ago)
        base_weight == RMul(RMul(margin_weight, venue_weight), recency_weight)
        p_expected == win_probability(winner_rating, loser_rating)
        risk == risk_multipliers(base_weight, p_expected)
        surprise == IF game.cross_conf THEN surprise_multiplier(p_expected) ELSE One
        bowl_multiplier == IF game.is_bowl THEN bowl_bump ELSE One
        final_credit == RMul(risk.credit, bowl_multiplier)
        final_penalty == RMul(risk.penalty, bowl_multiplier)
    IN  [margin_factor |-> margin_weight,
         venue_factor |-> venue_weight,
         recency_factor |-> recency_weight,
         base_weight |-> base_weight,
         p_expected |-> p_expected,
         risk_credit |-> risk.credit,
         risk_penalty |-> risk.penalty,
         surprise_multiplier |-> surprise,
         bowl_multiplier |-> bowl_multiplier,
         final_credit |-> final_credit,
         final_penalty |-> final_penalty,
         cross_conf_credit |-> IF game.cross_conf THEN RMul(final_credit, surprise)
                               ELSE Zero,
         weeks_ago |-> weeks_ago]

GwScores == {10, 13}
GwRatings == {<<1, 4>>, Half, <<3, 4>>}
GwCurrentWeeks == {1, 2}

\* A raw game through one of the two processors.
GwProcess ==
    /\ wcalc.pc = "idle"
    /\ \E processor \in {"legacy", "validator"}, neutral_site \in BOOLEAN,
          home_score \in GwScores, away_score \in GwScores, cross_conf \in BOOLEAN,
          current_week \in GwCurrentWeeks, winner_rating \in GwRatings,
          loser_rating \in GwRatings :
          wcalc' = [pc |-> "processed",
                    neutral_site |-> neutral_site,
                    home_won |-> home_score > away_score,
                    game |-> [venue |-> IF processor = "legacy"
                                        THEN legacy_venue(neutral_site, home_score,
                                                          away_score)
                                        ELSE validator_venue(neutral_site,
                                                             home_score, away_score),
                              margin |-> Abs(home_score - away_score),
                              week |-> 1, cross_conf |-> cross_conf,
                              is_bowl |-> FALSE],
                    current_week |-> current_week,
                    winner_rating |-> winner_rating,
                    loser_rating |-> loser_rating,
                    regular |-> None, bowl |-> None]
    /\ UNCHANGED <<pr, gb, inj, retro, boot, live, audit, store, sc, mf, sched, qw>>

\* The row weighted as it is.
GwRegular ==
    /\ wcalc.pc = "processed"
    /\ wcalc' = [wcalc EXCEPT
                   !.pc = "regular",
                   !.regular = calculate_game_weights(wcalc.game, wcalc.current_week,
                                                      wcalc.winner_rating,
                                                      wcalc.loser_rating)]
    /\ UNCHANGED <<pr, gb, inj, retro, boot, live, audit, store, sc, mf, sched, qw>>

\* The same row weighted as a postseason game.
GwBowl ==
    /\ wcalc.pc = "regular"
    /\ wcalc' = [wcalc EXCEPT
                   !.pc = "weighed",
                   !.bowl = calculate_game_weights([wcalc.game EXCEPT !.is_bowl = TRUE],
                                                   wcalc.current_week,
                                                   wcalc.winner_rating,
                                                   wcalc.loser_rating)]
    /\ UNCHANGED <<pr, gb, inj, retro, boot, live, audit, store, sc, mf, sched, qw>>

GameWeightsNext == GwProcess \/ GwRegular \/ GwBowl

SpecGameWeights == PRInit /\ [][GameWeightsNext]_vars

\* The postseason credit is bowl_bump times the regular-season credit.
BowlCreditBumped ==
    wcalc.pc = "weighed" =>
        wcalc.bowl.final_credit = RMul(bowl_bump, wcalc.regular.final_credit)

(* C25: of two games that differ only in phase, the postseason game's     *)
(* credit weight is bowl_bump times the regular-season game's, and the     *)
(* penalty weights are equal.                                              *)
C25_BowlBumpCreditOnly ==
    wcalc.pc = "weighed" =>
        /\ wcalc.bowl.final_credit = RMul(bowl_bump, wcalc.regular.final_credit)
        /\ wcalc.bowl.final_penalty = wcalc.regular.final_penalty

\* The factors the spec gives for the winner's side.
SpecVenueFactor(venue) ==
    CASE venue = "home" -> <<11, 10>>
      [] venue = "neutral" -> One
      [] venue = "away" -> <<9, 10>>

(* C26: for every venue game processing emits, the venue factor in the     *)
(* base weight is 1.1 for home, 1.0 for neutral and 0.9 for away; a win by *)
(* the visiting team is weighted with 0.9.                                 *)
C26_VenueFactors ==
    wcalc.pc \in {"regular", "weighed"} =>
        /\ wcalc.game.venue \in {"home", "neutral", "away"}
        /\ wcalc.regular.venue_factor = SpecVenueFactor(wcalc.game.venue)
        /\ (~wcalc.neutral_site /\ ~wcalc.home_won) =>
              wcalc.regular.venue_factor = <<9, 10>>

-----------------------------------------------------------------------------
(* The bootstrap rounds run as independent workers: every round has its    *)
(* own locals (sampled games, graphs, S_boot, R_boot) and the rounds'      *)
(* statements interleave freely; a finished round appends its rank map.    *)

ParRounds == 2

ParGameSeqs ==
    { <<Game("Alabama", "Georgia", "SEC", "SEC", 7, "home", 1, "regular"),
        Game("Liberty", "UConn", None, None, 3, "neutral", 5, "regular")>>,
      <<Game("Liberty", "UConn", None, None, 3, "neutral", 5, "regular"),
        Game("Liberty", "Army", None, None, 1, "neutral", 5, "regular")>>,
      <<Game("Liberty", "Army", None, None, 1, "neutral", 5, "regular"),
        Game("Army", "UConn", None, None, 3, "neutral", 5, "regular")>> }

\* The order in which a dict of this process lists the teams (the
\* iteration order of the set of team names).
DictOrders ==
    { <<"Alabama", "Georgia", "Michigan", "Liberty", "UConn", "Army">>,
      <<"Army", "UConn", "Liberty", "Michigan", "Georgia", "Alabama">> }

Position(order, team) == CHOOSE i \in DOMAIN order : order[i] = team

\* _get_rankings_from_ratings with the dict order given: sorted() is
\* stable, so teams with equal ratings stay in dict order.
rankings_from_ratings(ratings, order) ==
    [team \in DOMAIN ratings |->
        1 + Cardinality({u \in DOMAIN ratings :
                \/ RLt(ratings[team], ratings[u])
                \/ /\ ratings[u] = ratings[team]
                   /\ Position(order, u) < Position(order, team)})]

\* The graph a round hands to inject_conf_strength and pagerank: its own
\* local G_team; SharedGraph is a builder that keeps one graph.
SharedGraph(rounds, built, i) == rounds[built[Len(built)]].G_team
OwnGraph(rounds, built, i) == rounds[i].G_team

ParCall ==
    /\ boot.pc = "idle"
    /\ \E games \in ParGameSeqs, final_ratings \in PipelineRatingMaps,
          order \in DictOrders :
        \E samples \in [1..ParRounds -> Samples(games)] :
          boot' = [pc |-> "running", games |-> games,
                   final_ratings |-> final_ratings, order |-> order,
                   samples |-> samples,
                   baseline_ranking |-> rankings_from_ratings(final_ratings, order),
                   rounds |-> [i \in 1..ParRounds |->
                                  [pc |-> "todo", G_conf |-> EmptyGraph,
                                   G_team |-> EmptyGraph, S_boot |-> EmptyMap,
                                   rankings |-> None]],
                   built |-> <<>>, finished |-> <<>>,
                   bootstrap_rankings |-> <<>>, result |-> None]
    /\ UNCHANGED <<pr, gb, inj, retro, live, audit, store, sc, mf, wcalc, sched, qw>>

\* sampled_games = games_df.sample(..., random_state=sample_idx);
\* G_conf, G_team = rebuild_full_graph(sampled_games, final_ratings)
ParBuild(i) ==
    /\ boot.pc = "running"
    /\ boot.rounds[i].pc = "todo"
    /\ LET graphs == rebuild_full_graph(Sampled(boot.games, boot.samples[i]),
                                        boot.final_ratings)
       IN  boot' = [boot EXCEPT !.rounds[i].pc = "built",
                                !.rounds[i].G_conf = graphs.G_conf,
                                !.rounds[i].G_team = graphs.G_team,
                                !.built = Append(@, i)]
    /\ UNCHANGED <<pr, gb, inj, retro, live, audit, store, sc, mf, wcalc, sched, qw>>

\* S_boot = pagerank(G_conf), uniform when empty
ParConference(i) ==
    /\ boot.pc = "running"
    /\ boot.rounds[i].pc = "built"
    /\ LET S_raw == pagerank_of(boot.rounds[i].G_conf)
       IN  boot' = [boot EXCEPT
                      !.rounds[i].pc = "stage1",
                      !.rounds[i].S_boot =
                          IF S_raw = EmptyMap
                          THEN UniformConferences(
                                   ConferencesOf(Sampled(boot.games, boot.samples[i])))
                          ELSE S_raw]
    /\ UNCHANGED <<pr, gb, inj, retro, live, audit, store, sc, mf, wcalc, sched, qw>>

\* inject_conf_strength(G_team, S_boot, S_boot)
ParInject(i) ==
    /\ boot.pc = "running"
    /\ boot.rounds[i].pc = "stage1"
    /\ boot' = [boot EXCEPT
                  !.rounds[i].pc = "injected",
                  !.rounds[i].G_team =
                      inject_conf_strength(OwnGraph(boot.rounds, boot.built, i),
                                           boot.rounds[i].S_boot)]
    /\ UNCHANGED <<pr, gb, inj, retro, live, audit, store, sc, mf, wcalc, sched, qw>>

\* R_boot = pagerank(G_team); the rank map is appended when R_boot counts.
ParTeam(i) ==
    /\ boot.pc = "running"
    /\ boot.rounds[i].pc = "injected"
    /\ LET R_boot == pagerank_of(boot.rounds[i].G_team)
           rankings == rankings_from_ratings(R_boot, boot.order)
       IN  boot' = IF RoundCounts(R_boot)
                   THEN [boot EXCEPT !.rounds[i].pc = "done",
                                     !.rounds[i].rankings = rankings,
                                     !.finished = Append(@, i),
                                     !.bootstrap_rankings = Append(@, rankings)]
                   ELSE [boot EXCEPT !.rounds[i].pc = "done",
                                     !.finished = Append(@, i)]
    /\ UNCHANGED <<pr, gb, inj, retro, live, audit, store, sc, mf, wcalc, sched, qw>>

\* The merge: the statistics over the rank maps in the order they arrived.
ParMerge ==
    /\ boot.pc = "running"
    /\ \A i \in 1..ParRounds : boot.rounds[i].pc = "done"
    /\ boot' = [boot EXCEPT
                  !.pc = "done",
                  !.result = TeamUncertainty(boot.bootstrap_rankings,
                                             boot.baseline_ranking)]
    /\ UNCHANGED <<pr, gb, inj, retro, live, audit, store, sc, mf, wcalc, sched, qw>>

ParRound == \E i \in 1..ParRounds :
    ParBuild(i) \/ ParConference(i) \/ ParInject(i) \/ ParTeam(i)

ParallelNext == ParCall \/ ParRound \/ ParMerge

SpecParallel == PRInit /\ [][ParallelNext]_vars

\* The rank map of round i run alone.
RoundAlone(i) ==
    rankings_from_ratings(RoundRatings(Sampled(boot.games, boot.samples[i]),
                                       boot.final_ratings),
                          boot.order)

(* C27: the rank map a bootstrap round produces is the one it produces     *)
(* when run alone, whatever other rounds ran before or in between, and     *)
(* the aggregated statistics are those of the rounds run one after the     *)
(* other in index order.                                                   *)
C27_RoundsIndependent ==
    boot.pc \in {"running", "done"} =>
        /\ \A i \in 1..ParRounds :
              boot.rounds[i].pc = "done" => boot.rounds[i].rankings = RoundAlone(i)
        /\ boot.pc = "done" =>
              boot.result =
                  TeamUncertainty([i \in 1..ParRounds |-> RoundAlone(i)],
                                  boot.baseline_ranking)

\* Round 2 was built while round 1 was under way and finished first, on a
\* different sample, and the statistics were merged.
C27_Witness ==
    /\ boot.pc = "done"
    /\ boot.built = <<1, 2>>
    /\ boot.finished = <<2, 1>>
    /\ boot.samples[1] # boot.samples[2]
    /\ boot.rounds[1].rankings # boot.rounds[2].rankings
    /\ boot.rounds[1].G_team # boot.rounds[2].G_team


\* run_live, steps 5-8, when a statement of the try block raises: the
\* bias audit (step 6) comes before save_ratings; save_bias_metrics and
\* weekly_csv_json come after it.  The except clause returns success False.
IncStage2Raises ==
    /\ store.pc = "open"
    /\ live.pc = "stage2"
    /\ LET R == pagerank_of(inject_conf_strength(live.G_team, live.S))
       IN  /\ R # EmptyMap
           /\ \E raised_in \in {"compute_detailed_metrics", "save_bias_metrics",
                                "weekly_csv_json"} :
                 /\ live' = [live EXCEPT !.pc = "done",
                               !.saved = IF raised_in = "compute_detailed_metrics"
                                         THEN None ELSE [S |-> live.S, R |-> R],
                               !.result = [success |-> FALSE, error |-> raised_in]]
                 /\ store' = [store EXCEPT
                                !.files = IF raised_in = "compute_detailed_metrics"
                                          THEN @
                                          ELSE save_ratings(@, live.S, R, live.week,
                                                            live.season)]
    /\ UNCHANGED <<pr, gb, inj, retro, boot, audit, sc, mf, wcalc, sched, qw>>

PersistNext == StoreOpen \/ IncCall \/ LiveStage1 \/ IncStage2 \/ IncStage2Raises

SpecPersist == PRInit /\ [][PersistNext]_vars

\* Every return of run_live is a result dictionary with a success flag;
\* no step leaves the run without one.
RunLiveReturns ==
    (store.pc = "open" /\ live.pc = "done") => live.result.success \in BOOLEAN

(* C28: a run of run_live that returns success False (no games, an empty   *)
(* team PageRank, or an exception in any step) leaves the stored ratings   *)
(* of every week as they were before the run, so no later week loads       *)
(* priors written by a failed run.                                         *)
C28_FailedRunPersistsNothing ==
    [][(live'.pc = "done" /\ live.pc # "done" /\ ~live'.result.success)
          => store'.files = store.files]_vars


\* Thread objects that start_scheduler can create in one run of the model.
MaxThreads == 3

SchedThreads == 1..MaxThreads

InRunScheduler == {"while", "run_pending", "sleep"}

Alive(threads) == {t \in SchedThreads : threads[t] \in InRunScheduler}

\* RankingScheduler.__init__: is_running False, scheduler_thread None.
SchedInit ==
    /\ sched.pc = "idle"
    /\ sched' = [pc |-> "ready", is_running |-> FALSE, scheduler_thread |-> 0,
                 threads |-> [t \in SchedThreads |-> "new"], created |-> 0]
    /\ UNCHANGED <<pr, gb, inj, retro, boot, live, audit, store, sc, mf, wcalc, qw>>

\* start_scheduler: returns at once when is_running; otherwise sets the
\* flag, creates a thread on _run_scheduler and starts it.
start_scheduler ==
    /\ sched.pc = "ready"
    /\ IF sched.is_running
       THEN UNCHANGED sched
       ELSE /\ sched.created < MaxThreads
            /\ sched' = [sched EXCEPT !.is_running = TRUE,
                            !.created = @ + 1,
                            !.scheduler_thread = sched.created + 1,
                            !.threads[sched.created + 1] = "while"]
    /\ UNCHANGED <<pr, gb, inj, retro, boot, live, audit, store, sc, mf, wcalc, qw>>

\* stop_scheduler, first statement: is_running = False; then the join.
stop_scheduler ==
    /\ sched.pc = "ready"
    /\ sched' = [sched EXCEPT !.is_running = FALSE,
                    !.pc = IF sched.scheduler_thread # 0 THEN "join" ELSE "ready"]
    /\ UNCHANGED <<pr, gb, inj, retro, boot, live, audit, store, sc, mf, wcalc, qw>>

\* scheduler_thread.join(timeout=5) returns when the thread has ended or
\* when five seconds have passed, whichever is first; the thread sleeps
\* sixty seconds between two tests of the flag.
stop_join ==
    /\ sched.pc = "join"
    /\ \E timed_out \in BOOLEAN :
          timed_out \/ sched.threads[sched.scheduler_thread] = "ended"
    /\ sched' = [sched EXCEPT !.pc = "ready"]
    /\ UNCHANGED <<pr, gb, inj, retro, boot, live, audit, store, sc, mf, wcalc, qw>>

\* _run_scheduler: while self.is_running
RunWhile(t) ==
    /\ sched.pc \in {"ready", "join"}
    /\ sched.threads[t] = "while"
    /\ sched' = [sched EXCEPT !.threads[t] =
                    IF sched.is_running THEN "run_pending" ELSE "ended"]
    /\ UNCHANGED <<pr, gb, inj, retro, boot, live, audit, store, sc, mf, wcalc, qw>>

\* schedule.run_pending()
RunPending(t) ==
    /\ sched.pc \in {"ready", "join"}
    /\ sched.threads[t] = "run_pending"
    /\ sched' = [sched EXCEPT !.threads[t] = "sleep"]
    /\ UNCHANGED <<pr, gb, inj, retro, boot, live, audit, store, sc, mf, wcalc, qw>>

\* time.sleep(60) is over
RunSleep(t) ==
    /\ sched.pc \in {"ready", "join"}
    /\ sched.threads[t] = "sleep"
    /\ sched' = [sched EXCEPT !.threads[t] = "while"]
    /\ UNCHANGED <<pr, gb, inj, retro, boot, live, audit, store, sc, mf, wcalc, qw>>

RunThread == \E t \in SchedThreads : RunWhile(t) \/ RunPending(t) \/ RunSleep(t)

SchedulerNext == SchedInit \/ start_scheduler \/ stop_scheduler \/ stop_join \/ RunThread

SpecScheduler == PRInit /\ [][SchedulerNext]_vars

\* While the flag is set, the thread in scheduler_thread is inside
\* _run_scheduler.
CurrentThreadAlive ==
    (sched.pc # "idle" /\ sched.is_running) =>
        sched.scheduler_thread \in Alive(sched.threads)

\* Two threads are inside schedule.run_pending() at once.
TwoThreadsRunPending ==
    /\ sched.pc # "idle"
    /\ Cardinality({t \in SchedThreads : sched.threads[t] = "run_pending"}) >= 2

(* C29: over every sequence of start_scheduler and stop_scheduler calls,   *)
(* at most one thread is inside _run_scheduler at any time.                *)
C29_AtMostOneSchedulerThread ==
    sched.pc # "idle" => Cardinality(Alive(sched.threads)) <= 1


\* The game the rebuild weighted last.
RebuiltGame == gb.games[gb.i - 1]

\* base_weight is margin factor * venue factor * recency factor.
RecencyFactorOf(weights, game) ==
    RDiv(weights.base_weight,
         RMul(margin_factor(game.margin), venue_factor(game.venue)))

(* C30: in the hindsight rebuild every game is weighted with its own week  *)
(* as the reference week, so the recency factor in its weight is exactly   *)
(* 1, whatever the week of the game and the decay constant.               *)
C30_HindsightRecencyIsOne ==
    (GBProcessed /\ gb.mode = "retro") =>
        /\ gb.weights = calculate_edge_weights(RebuiltGame,
                            Get(gb.ratings, RebuiltGame.winner, Half),
                            Get(gb.ratings, RebuiltGame.loser, Half),
                            RebuiltGame.week, 999, 999)
        /\ margin_factor(RebuiltGame.margin) # Zero =>
              RecencyFactorOf(gb.weights, RebuiltGame) = One

\* The rebuild has weighted a week-1 game after a week-15 game, with a
\* nonzero margin.
C30_Witness ==
    /\ gb.pc = "loop"
    /\ gb.mode = "retro"
    /\ gb.i = 3
    /\ gb.games[1].week = 15
    /\ gb.games[2].week = 1
    /\ margin_factor(gb.games[2].margin) # Zero
    /\ gb.weights.base_weight # Zero

====
